---------------------------- MODULE Spec2Model ----------------------------
(***************************************************************************)
(* A model of lu-hut's traversal engine (flat, recursive and tree          *)
(* listing under cancellation, depth and directory-count limits), of its   *)
(* filter and of its sort strategies.                                      *)
(*                                                                         *)
(* Strings are sequences of code points (46 is ".", 42 "*", 63 "?",        *)
(* 65..90 "A".."Z", 97..122 "a".."z"), so that glob matching, lower-casing *)
(* and byte-wise comparison are computed, not assumed.                     *)
(***************************************************************************)
EXTENDS Integers, Sequences, FiniteSets, TLC

VARIABLES
    config,     \* config.Config of this invocation (+ which engine runs it)
    fs,         \* the file system the invocation sees
    path,       \* what the path argument of List names: "dir", "file", "missing"
    pc,         \* position of List's own goroutine
    sigChan,    \* number of signals buffered in sigChan (capacity 1)
    sigCount,   \* signals delivered by the OS so far
    listener,   \* position of the signal-listening goroutine
    ctxDone,    \* the context has been cancelled
    dirs,       \* listRecursive: the FIFO queue of dirEntry{path, level}
    dirCount,   \* listRecursive: directories counted against maxDirs
    stack,      \* renderTreeRecursive: the call stack, innermost frame last
    result,     \* what List returned: "none" while it runs
    ev,         \* the last thing the traversal did (read, line, notice, ...)
    nRead,      \* os.ReadDir calls made by the traversal so far
    nOut,       \* tables rendered / tree entry lines printed so far
    nErr,       \* "Error reading" reports printed so far
    observed,   \* a cancellation check has found the context cancelled
    cancelMsg,  \* "Operation cancelled by user" has been printed
    scanLevel,  \* deepest level hasMatchingDescendants read a directory at (-1: none)
    dequeued,   \* listRecursive: the paths taken off the queue, the first MaxHistory of them
    call,       \* pure-function specifications: the call being made
    ret         \* pure-function specifications: what it returned

vars == <<config, fs, path, pc, sigChan, sigCount, listener, ctxDone, dirs,
          dirCount, stack, result, ev, nRead, nOut, nErr, observed, cancelMsg,
          scanLevel, dequeued, call, ret>>

travVars == <<config, fs, path, pc, sigChan, sigCount, listener, ctxDone, dirs,
              dirCount, stack, result, ev, nRead, nOut, nErr, observed, cancelMsg,
              scanLevel, dequeued>>

-----------------------------------------------------------------------------
(* Strings *)

\* strings.HasPrefix(name, ".")
HasDotPrefix(name) == Len(name) > 0 /\ name[1] = 46

\* strings.ToLower on the ASCII letters of the model's alphabet
ToLower(s) == [i \in 1..Len(s) |-> IF s[i] >= 65 /\ s[i] <= 90 THEN s[i] + 32 ELSE s[i]]

\* Go's byte-wise string comparison a < b
RECURSIVE StrLess(_, _)
StrLess(a, b) ==
    IF b = <<>> THEN FALSE
    ELSE IF a = <<>> THEN TRUE
    ELSE IF a[1] # b[1] THEN a[1] < b[1]
    ELSE StrLess(Tail(a), Tail(b))

\* strings.Compare(a, b)
StrCompare(a, b) == IF a = b THEN 0 ELSE IF StrLess(a, b) THEN -1 ELSE 1

\* filepath.Ext: the suffix starting at the last dot, "" when there is none
RECURSIVE ExtFrom(_, _)
ExtFrom(name, i) ==
    IF i = 0 THEN <<>>
    ELSE IF name[i] = 46 THEN SubSeq(name, i, Len(name))
    ELSE ExtFrom(name, i - 1)

Ext(name) == ExtFrom(name, Len(name))

\* filepath.Match for patterns made of literals, "*" and "?" (names hold no
\* separator; the model's patterns hold no "[" and no "\")
RECURSIVE Match(_, _)
Match(pattern, name) ==
    IF pattern = <<>> THEN name = <<>>
    ELSE IF pattern[1] = 42
         THEN \E k \in 0..Len(name) : Match(Tail(pattern), SubSeq(name, k + 1, Len(name)))
    ELSE IF name = <<>> THEN FALSE
    ELSE IF pattern[1] = 63 THEN Match(Tail(pattern), Tail(name))
    ELSE pattern[1] = name[1] /\ Match(Tail(pattern), Tail(name))

-----------------------------------------------------------------------------
(* Filter *)

\* Filter.shouldExclude
shouldExclude(excludePatterns, name) ==
    \E i \in 1..Len(excludePatterns) : Match(excludePatterns[i], name)

\* Filter.shouldInclude
shouldInclude(includePatterns, name) ==
    \E i \in 1..Len(includePatterns) : Match(includePatterns[i], name)

\* mutant of ApplyKeeps: an entry matching an include pattern is kept
\* before the exclude patterns are looked at
ApplyKeepsIncludeFirst(f, file, showHidden) ==
    IF ~showHidden /\ file.IsHidden THEN FALSE
    ELSE IF Len(f.includePatterns) > 0
    THEN shouldInclude(f.includePatterns, file.Name)
    ELSE ~shouldExclude(f.excludePatterns, file.Name)

\* mutant of ApplyKeeps: a directory is kept whatever its name
ApplyKeepsDirectories(f, file, showHidden) ==
    \/ file.IsDir
    \/ /\ showHidden \/ ~file.IsHidden
       /\ ~shouldExclude(f.excludePatterns, file.Name)
       /\ Len(f.includePatterns) = 0 \/ shouldInclude(f.includePatterns, file.Name)

\* one iteration of Filter.Apply's loop: TRUE when the entry is appended
ApplyKeeps(f, file, showHidden) ==
    IF ~showHidden /\ file.IsHidden THEN FALSE
    ELSE IF shouldExclude(f.excludePatterns, file.Name) THEN FALSE
    ELSE IF Len(f.includePatterns) > 0 /\ ~shouldInclude(f.includePatterns, file.Name) THEN FALSE
    ELSE TRUE

\* Filter.Apply: the loop over files, appending the kept ones to filtered
RECURSIVE ApplyLoop(_, _, _, _, _)
ApplyLoop(f, files, showHidden, i, filtered) ==
    IF i > Len(files) THEN filtered
    ELSE ApplyLoop(f, files, showHidden, i + 1,
                   IF ApplyKeeps(f, files[i], showHidden)
                   THEN Append(filtered, files[i]) ELSE filtered)

Apply(f, files, showHidden) == ApplyLoop(f, files, showHidden, 1, <<>>)

-----------------------------------------------------------------------------
(* Sort strategies *)

\* mutant of NameLess: the names are compared without strings.ToLower
NameLessCaseSensitive(a, b, reverse) ==
    IF a.IsDir # b.IsDir THEN a.IsDir
    ELSE IF reverse THEN StrCompare(a.Name, b.Name) > 0
    ELSE StrCompare(a.Name, b.Name) < 0

\* NameSortStrategy.Sort's less(i, j)
NameLess(a, b, reverse) ==
    IF a.IsDir # b.IsDir THEN a.IsDir
    ELSE IF reverse THEN StrCompare(ToLower(a.Name), ToLower(b.Name)) > 0
    ELSE StrCompare(ToLower(a.Name), ToLower(b.Name)) < 0

\* mutant of TimeLess: directories are grouped first, as in the other strategies
TimeLessDirectoriesFirst(a, b, reverse) ==
    IF a.IsDir # b.IsDir THEN a.IsDir
    ELSE IF reverse THEN a.ModTime < b.ModTime ELSE a.ModTime > b.ModTime

\* TimeSortStrategy.Sort's less(i, j)
TimeLess(a, b, reverse) ==
    IF reverse THEN a.ModTime < b.ModTime ELSE a.ModTime > b.ModTime

\* mutant of SizeLess: reverse flips the directory grouping too
SizeLessReverseAll(a, b, reverse) ==
    IF reverse
    THEN IF a.IsDir # b.IsDir THEN b.IsDir ELSE a.Size < b.Size
    ELSE IF a.IsDir # b.IsDir THEN a.IsDir ELSE a.Size > b.Size

\* SizeSortStrategy.Sort's less(i, j)
SizeLess(a, b, reverse) ==
    IF a.IsDir # b.IsDir THEN a.IsDir
    ELSE IF reverse THEN a.Size < b.Size
    ELSE a.Size > b.Size

\* ExtensionSortStrategy.Sort's less(i, j)
ExtensionLess(a, b, reverse) ==
    IF a.IsDir # b.IsDir THEN a.IsDir
    ELSE IF reverse THEN StrLess(ToLower(Ext(b.Name)), ToLower(Ext(a.Name)))
    ELSE StrLess(ToLower(Ext(a.Name)), ToLower(Ext(b.Name)))

\* the comparator of the strategy NewDirectoryLister / lister.New selected
Less(strategy, a, b, reverse) ==
    CASE strategy = "size" -> SizeLess(a, b, reverse)
      [] strategy = "extension" -> ExtensionLess(a, b, reverse)
      [] strategy = "time" -> TimeLess(a, b, reverse)
      [] OTHER -> NameLess(a, b, reverse)

RemoveAt(s, i) == SubSeq(s, 1, i - 1) \o SubSeq(s, i + 1, Len(s))

\* sort.Slice is not stable: every ordering of files in which no element is
\* less than an earlier one is an outcome it can produce.
RECURSIVE SortOutcomes(_, _, _)
SortOutcomes(strategy, files, reverse) ==
    IF files = <<>> THEN {<<>>}
    ELSE UNION { { <<files[i]>> \o r : r \in SortOutcomes(strategy, RemoveAt(files, i), reverse) } :
                 i \in { i \in 1..Len(files) :
                           \A j \in 1..Len(files) : ~Less(strategy, files[j], files[i], reverse) } }

-----------------------------------------------------------------------------
(* The file system: directories are numbered, the root is 0.  An entry is   *)
(* what os.ReadDir plus entry.Info() give for one name; Path is the number  *)
(* of the directory the entry's path names (0 for a non-directory).         *)

DirEnt(name, isDir, p, size, modTime, infoErr) ==
    [Name |-> name, IsDir |-> isDir, Path |-> p, Size |-> size,
     ModTime |-> modTime, infoErr |-> infoErr]

\* The hand-made tree:
\*   /            .g/  a/  c/ (unreadable)  d/  f.t
\*   /.g          m.t
\*   /a           B/  n.t  v (vanishes before Info)
\*   /a/B         x.t
\*   /d           e.t
SmallTree(d) ==
    CASE d = 0 -> [fails |-> FALSE, entries |->
                    << DirEnt(<<46, 103>>, TRUE, 1, 8, 5, FALSE),
                       DirEnt(<<97>>, TRUE, 2, 8, 3, FALSE),
                       DirEnt(<<99>>, TRUE, 3, 8, 3, FALSE),
                       DirEnt(<<100>>, TRUE, 5, 9, 7, FALSE),
                       DirEnt(<<102, 46, 116>>, FALSE, 0, 2, 4, FALSE) >>]
      [] d = 1 -> [fails |-> FALSE, entries |->
                    << DirEnt(<<109, 46, 116>>, FALSE, 0, 1, 1, FALSE) >>]
      [] d = 2 -> [fails |-> FALSE, entries |->
                    << DirEnt(<<66>>, TRUE, 4, 8, 2, FALSE),
                       DirEnt(<<110, 46, 116>>, FALSE, 0, 3, 2, FALSE),
                       DirEnt(<<118>>, FALSE, 0, 1, 1, TRUE) >>]
      [] d = 3 -> [fails |-> TRUE, entries |-> <<>>]
      [] d = 4 -> [fails |-> FALSE, entries |->
                    << DirEnt(<<120, 46, 116>>, FALSE, 0, 1, 6, FALSE) >>]
      [] OTHER -> [fails |-> FALSE, entries |->
                    << DirEnt(<<101, 46, 116>>, FALSE, 0, 4, 1, FALSE) >>]

\* k chains of len nested directories below the root, each directory holding
\* one file f.t next to its subdirectory (the shape of the depth-limit test):
\* directory d >= 1 lies on chain (d-1) % k at depth (d-1) \div k + 1.
ChainTree(k, len, d) ==
    LET file == DirEnt(<<102, 46, 116>>, FALSE, 0, 7, 1, FALSE)
        sub(c, child) == DirEnt(<<97 + c>>, TRUE, child, 8, 2 + c, FALSE)
    IN  IF d = 0
        THEN [fails |-> FALSE,
              entries |-> [i \in 1..(IF len > 0 THEN k ELSE 0) |-> sub(i - 1, i)] \o <<file>>]
        ELSE IF (d - 1) \div k + 1 < len
        THEN [fails |-> FALSE, entries |-> <<sub((d - 1) % k, d + k), file>>]
        ELSE [fails |-> FALSE, entries |-> <<file>>]

\* one chain of len nested directories named a, the hiddenAt-th of them named
\* .a instead (0: none), and the file leaf in the innermost of them:
\* directory d >= 1 lies at depth d
ScanTree(len, leaf, hiddenAt, d) ==
    LET sub(child) == DirEnt(IF child = hiddenAt THEN <<46, 97>> ELSE <<97>>,
                             TRUE, child, 8, 2, FALSE)
    IN  IF d < len THEN [fails |-> FALSE, entries |-> <<sub(d + 1)>>]
        ELSE [fails |-> FALSE, entries |-> <<DirEnt(leaf, FALSE, 0, 7, 1, FALSE)>>]

Directory(f, d) ==
    IF f.kind = "small" THEN SmallTree(d)
    ELSE IF f.kind = "scan" THEN ScanTree(f.len, f.leaf, f.hiddenAt, d)
    ELSE ChainTree(f.k, f.len, d)

\* os.ReadDir(path) returned an error
ReadDirFails(f, d) == Directory(f, d).fails

\* os.ReadDir(path): the entries, sorted by file name
ReadDir(f, d) == Directory(f, d).entries

-----------------------------------------------------------------------------
(* Configuration *)

\* lister.New / NewDirectoryLister: the strategy the sort flags select
sortStrat(cfg) ==
    IF cfg.SortSize THEN "size"
    ELSE IF cfg.SortExtension THEN "extension"
    ELSE IF cfg.SortModified THEN "time"
    ELSE "name"

\* lister.New / NewDirectoryLister: the filter built from the patterns
NewFilter(cfg) ==
    [includePatterns |-> cfg.IncludePatterns, excludePatterns |-> cfg.ExcludePatterns]

\* collectFiles: one FileEntry per entry whose Info() succeeds
RECURSIVE collectFiles(_, _)
collectFiles(entries, i) ==
    IF i > Len(entries) THEN <<>>
    ELSE IF entries[i].infoErr THEN collectFiles(entries, i + 1)
    ELSE << [Name |-> entries[i].Name, Path |-> entries[i].Path,
             Size |-> entries[i].Size, ModTime |-> entries[i].ModTime,
             IsDir |-> entries[i].IsDir,
             IsHidden |-> HasDotPrefix(entries[i].Name)] >>
         \o collectFiles(entries, i + 1)

-----------------------------------------------------------------------------
(* Lister.List / DirectoryLister.List *)

\* listRecursive's maxDirs
maxDirs == 10000

\* DirectoryLister.listRecursive's default maxDepth
defaultMaxDepth == 30

Event(kind, p, level) == [kind |-> kind, path |-> p, level |-> level]

\* List returns res; its deferred cancel() runs
Return(res) ==
    /\ result' = res
    /\ pc' = "done"
    /\ ctxDone' = TRUE

\* List, up to the start of the listening goroutine (lister.go:52-64)
ListStart ==
    /\ pc = "start"
    /\ pc' = "validate"
    /\ listener' = "select"
    /\ UNCHANGED <<config, fs, path, sigChan, sigCount, ctxDone, dirs, dirCount,
                   stack, result, ev, nRead, nOut, nErr, observed, cancelMsg, scanLevel, dequeued, call, ret>>

\* mutant of validate: the IsDir test is missing
validateExistsOnly(p) ==
    IF p = "missing" THEN "stat error" ELSE "ok"

\* what os.Stat and info.IsDir make of the path (lister.go:71-77)
validate(p) ==
    IF p = "missing" THEN "stat error"
    ELSE IF p = "file" THEN "not a directory"
    ELSE "ok"

\* List: filepath.Abs, os.Stat, IsDir, then the dispatch on the mode
\* (lister.go:66-89; lu.go:308-327 has no tree mode)
ListValidate ==
    /\ pc = "validate"
    /\ IF validate(path) # "ok"
       THEN Return(validate(path)) /\ UNCHANGED <<dirs, stack>>
       ELSE IF config.engine = "lister" /\ config.Tree
       THEN /\ pc' = "tree"
            /\ stack' = << [path |-> 0, level |-> 0, phase |-> "enter", files |-> <<>>, i |-> 1] >>
            /\ UNCHANGED <<dirs, result, ctxDone>>
       ELSE IF config.Recursive
       THEN /\ pc' = "rec_check"
            /\ dirs' = << [path |-> 0, level |-> 0] >>
            /\ UNCHANGED <<stack, result, ctxDone>>
       ELSE /\ pc' = "flat"
            /\ UNCHANGED <<dirs, stack, result, ctxDone>>
    /\ UNCHANGED <<config, fs, path, sigChan, sigCount, listener, dirCount, ev,
                   nRead, nOut, nErr, observed, cancelMsg, scanLevel, dequeued, call, ret>>

\* List, flat mode: read, collect, filter, sort, render (lister.go:91-103)
ListFlat ==
    /\ pc = "flat"
    /\ nRead' = nRead + 1
    /\ IF ReadDirFails(fs, 0)
       THEN /\ Return("readdir error")
            /\ ev' = Event("failed", 0, 0)
            /\ UNCHANGED nOut
       ELSE \E files \in SortOutcomes(sortStrat(config),
                             Apply(NewFilter(config), collectFiles(ReadDir(fs, 0), 1),
                                   config.ShowHidden),
                             config.Reverse) :
            /\ Return("nil")
            /\ ev' = Event("table", 0, 0)
            /\ nOut' = nOut + 1
    /\ UNCHANGED <<config, fs, path, sigChan, sigCount, listener, dirs, dirCount,
                   stack, nErr, observed, cancelMsg, scanLevel, dequeued, call, ret>>

-----------------------------------------------------------------------------
(* The signal-listening goroutine *)

\* bound: signals the OS delivers during one invocation
MaxSignals == 1

\* signal.Notify is in force: from List's start until its deferred
\* signal.Stop (DirectoryLister.List never stops it)
Notifying ==
    /\ pc # "start"
    /\ config.engine = "lister" => pc # "done"

-----------------------------------------------------------------------------
(* listRecursive *)

\* mutant of depthReached: the test is level > maxDepth
depthReachedOffByOne(cfg, level) ==
    IF cfg.engine = "lu"
    THEN level > (IF cfg.MaxDepth > 0 THEN cfg.MaxDepth ELSE defaultMaxDepth)
    ELSE cfg.MaxDepth > 0 /\ level > cfg.MaxDepth

\* mutant of depthReached: Lister.listRecursive maps 0 to the default too
depthReachedDefaultsTo30(cfg, level) ==
    level >= (IF cfg.MaxDepth > 0 THEN cfg.MaxDepth ELSE defaultMaxDepth)

\* the depth test of the loop: lister.go:139, lu.go:354-356 and 372
depthReached(cfg, level) ==
    IF cfg.engine = "lu"
    THEN level >= (IF cfg.MaxDepth > 0 THEN cfg.MaxDepth ELSE defaultMaxDepth)
    ELSE cfg.MaxDepth > 0 /\ level >= cfg.MaxDepth

\* the depth at which the "(max depth reached)" notice is printed
noticeDepth(cfg) ==
    IF cfg.engine = "lu" /\ cfg.MaxDepth <= 0 THEN defaultMaxDepth ELSE cfg.MaxDepth

\* the subdirectories among files from position i on, as queue entries
RECURSIVE subdirEntries(_, _, _)
subdirEntries(files, i, level) ==
    IF i > Len(files) THEN <<>>
    ELSE (IF files[i].IsDir THEN << [path |-> files[i].Path, level |-> level] >> ELSE <<>>)
             \o subdirEntries(files, i + 1, level)

\* mutant of enqueue: the subdirectories are put in front of the queue
enqueueInFront(queue, files, i, level) == subdirEntries(files, i, level) \o queue

\* the subdirectories of files, appended to the queue at level + 1
RECURSIVE enqueue(_, _, _, _)
enqueue(queue, files, i, level) ==
    IF i > Len(files) THEN queue
    ELSE enqueue(IF files[i].IsDir
                 THEN Append(queue, [path |-> files[i].Path, level |-> level])
                 ELSE queue,
                 files, i + 1, level)

\* mutant of RecCancelled: the cancelled context is not acted upon
RecCancelIgnored ==
    /\ pc' = "rec_process"
    /\ UNCHANGED <<result, ctxDone, ev, observed, cancelMsg>>

\* case <-ctx.Done(): the message, and ctx.Err() returned (lister.go:130-132)
RecCancelled ==
    /\ Return("canceled")
    /\ ev' = Event("cancelled", dirs[1].path, dirs[1].level)
    /\ observed' = TRUE
    /\ cancelMsg' = TRUE

\* the head of the loop: the loop condition and the select on ctx.Done()
\* (lister.go:128-134, 186)
RecCheck ==
    /\ pc = "rec_check"
    /\ IF Len(dirs) = 0
       THEN /\ Return("nil")
            /\ UNCHANGED <<ev, observed, cancelMsg>>
       ELSE IF ctxDone
       THEN RecCancelled
       ELSE /\ pc' = "rec_process"
            /\ UNCHANGED <<result, ctxDone, ev, observed, cancelMsg>>
    /\ UNCHANGED <<config, fs, path, sigChan, sigCount, listener, dirs, dirCount,
                   stack, nRead, nOut, nErr, scanLevel, dequeued, call, ret>>

\* mutant of limitHit: the test is off by one
limitHitLate(count) == count > maxDirs + 1

\* mutant of RecReadError: the read error ends the traversal
RecReadErrorAborts(current, rest) ==
    /\ dirCount' = dirCount + 1
    /\ nRead' = nRead + 1
    /\ nErr' = nErr + 1
    /\ ev' = Event("failed", current.path, current.level)
    /\ dirs' = rest
    /\ Return("readdir error")
    /\ UNCHANGED nOut

\* mutant of RecReadError: the directory that could not be read stays at the
\* head of the queue
RecReadErrorRetries(current, rest) ==
    /\ dirCount' = dirCount + 1
    /\ nRead' = nRead + 1
    /\ nErr' = nErr + 1
    /\ ev' = Event("failed", current.path, current.level)
    /\ dirs' = <<current>> \o rest
    /\ pc' = "rec_check"
    /\ UNCHANGED <<result, ctxDone, nOut>>

\* dirCount > maxDirs (lister.go:151)
limitHit(count) == count > maxDirs

\* os.ReadDir failed: the report on stderr, and continue (lister.go:162-165)
RecReadError(current, rest) ==
    /\ dirCount' = dirCount + 1
    /\ nRead' = nRead + 1
    /\ nErr' = nErr + 1
    /\ ev' = Event("failed", current.path, current.level)
    /\ dirs' = rest
    /\ pc' = "rec_check"
    /\ UNCHANGED <<result, ctxDone, nOut>>

\* bound: how many dequeued paths are remembered
MaxHistory == 8

\* current := dirs[0]; dirs = dirs[1:] as the record of it (lister.go:136-137)
remember(history, p) ==
    IF Len(history) < MaxHistory THEN Append(history, p) ELSE history

\* the rest of one iteration: dequeue, depth limit, directory count, read,
\* filter, sort, render, enqueue (lister.go:136-183)
RecProcess ==
    /\ pc = "rec_process"
    /\ LET current == dirs[1]
           rest == Tail(dirs)
       IN  IF depthReached(config, current.level)
           THEN /\ ev' = Event(IF current.level = noticeDepth(config)
                               THEN "max depth" ELSE "skipped",
                               current.path, current.level)
                /\ dirs' = rest
                /\ pc' = "rec_check"
                /\ UNCHANGED <<dirCount, result, ctxDone, nRead, nOut, nErr>>
           ELSE IF limitHit(dirCount + 1)
           THEN /\ dirCount' = dirCount + 1
                /\ ev' = Event("limit", current.path, current.level)
                /\ dirs' = rest
                /\ Return("nil")
                /\ UNCHANGED <<nRead, nOut, nErr>>
           ELSE IF ReadDirFails(fs, current.path)
           THEN RecReadError(current, rest)
           ELSE \E files \in SortOutcomes(sortStrat(config),
                                 Apply(NewFilter(config),
                                       collectFiles(ReadDir(fs, current.path), 1),
                                       config.ShowHidden),
                                 config.Reverse) :
                /\ dirCount' = dirCount + 1
                /\ nRead' = nRead + 1
                /\ pc' = "rec_check"
                /\ IF Len(files) = 0
                   THEN /\ ev' = Event("empty", current.path, current.level)
                        /\ dirs' = rest
                        /\ UNCHANGED nOut
                   ELSE /\ ev' = Event("table", current.path, current.level)
                        /\ nOut' = nOut + 1
                        /\ dirs' = enqueue(rest, files, 1, current.level + 1)
                /\ UNCHANGED <<result, ctxDone, nErr>>
    /\ dequeued' = remember(dequeued, dirs[1].path)
    /\ UNCHANGED <<config, fs, path, sigChan, sigCount, listener, stack, observed,
                   cancelMsg, scanLevel, call, ret>>

-----------------------------------------------------------------------------
(* The signal-listening goroutine (lister.go:55-64, lu.go:301-306) *)

\* the OS delivers SIGINT or SIGTERM: a non-blocking send on sigChan
SignalArrives ==
    /\ Notifying
    /\ sigCount < MaxSignals
    /\ sigCount' = sigCount + 1
    /\ sigChan' = 1
    /\ UNCHANGED <<config, fs, path, pc, listener, ctxDone, dirs, dirCount, stack,
                   result, ev, nRead, nOut, nErr, observed, cancelMsg, scanLevel, dequeued,
                   call, ret>>

\* case <-sigChan: cancel()
ListenerSignal ==
    /\ listener = "select"
    /\ sigChan = 1
    /\ sigChan' = 0
    /\ ctxDone' = TRUE
    /\ listener' = "exited"
    /\ UNCHANGED <<config, fs, path, pc, sigCount, dirs, dirCount, stack, result,
                   ev, nRead, nOut, nErr, observed, cancelMsg, scanLevel, dequeued, call, ret>>

\* case <-ctx.Done(): only Lister.List's goroutine has this case
ListenerCtxDone ==
    /\ config.engine = "lister"
    /\ listener = "select"
    /\ ctxDone
    /\ listener' = "exited"
    /\ UNCHANGED <<config, fs, path, pc, sigChan, sigCount, ctxDone, dirs, dirCount,
                   stack, result, ev, nRead, nOut, nErr, observed, cancelMsg,
                   scanLevel, dequeued, call, ret>>

-----------------------------------------------------------------------------
(* Tree.Render, Tree.renderTreeRecursive, Tree.hasMatchingDescendants *)

Max(a, b) == IF a >= b THEN a ELSE b

\* the depth test of renderTreeRecursive (part_002:71)
treeDepthReached(cfg, level) == cfg.MaxDepth > 0 /\ level >= cfg.MaxDepth

\* the FileEntry list renderTreeRecursive builds (part_002:84-106)
RECURSIVE treeFiles(_, _, _)
treeFiles(cfg, entries, i) ==
    IF i > Len(entries) THEN <<>>
    ELSE IF ~cfg.ShowHidden /\ HasDotPrefix(entries[i].Name) THEN treeFiles(cfg, entries, i + 1)
    ELSE IF entries[i].infoErr THEN treeFiles(cfg, entries, i + 1)
    ELSE << [Name |-> entries[i].Name, Path |-> entries[i].Path,
             Size |-> entries[i].Size, ModTime |-> entries[i].ModTime,
             IsDir |-> entries[i].IsDir,
             IsHidden |-> HasDotPrefix(entries[i].Name)] >>
         \o treeFiles(cfg, entries, i + 1)

\* filepath.WalkDir under hasMatchingDescendants' callback, the context not
\* cancelled: walkDir visits directory d (rel levels below dirPath, at depth
\* level of the listing), walkEntries the entries of a directory from the
\* i-th on.  found: the callback set result and returned SkipAll; deepest:
\* the deepest level a directory was read at (-1: none).
RECURSIVE walkDir(_, _, _, _, _, _)
RECURSIVE walkEntries(_, _, _, _, _, _, _)
walkDir(f, cfg, d, name, rel, level) ==
    IF rel > 5 THEN [found |-> FALSE, deepest |-> -1]
    ELSE IF ~cfg.ShowHidden /\ HasDotPrefix(name) THEN [found |-> FALSE, deepest |-> -1]
    ELSE IF ReadDirFails(f, d) THEN [found |-> FALSE, deepest |-> level]
    ELSE walkEntries(f, cfg, ReadDir(f, d), 1, rel + 1, level + 1,
                     [found |-> FALSE, deepest |-> level])

walkEntries(f, cfg, entries, i, rel, level, acc) ==
    IF i > Len(entries) THEN acc
    ELSE IF entries[i].IsDir
    THEN LET r == walkDir(f, cfg, entries[i].Path, entries[i].Name, rel, level)
             acc2 == [found |-> r.found, deepest |-> Max(acc.deepest, r.deepest)]
         IN  IF r.found THEN acc2
             ELSE walkEntries(f, cfg, entries, i + 1, rel, level, acc2)
    ELSE IF rel > 5 THEN acc
    ELSE IF ~cfg.ShowHidden /\ HasDotPrefix(entries[i].Name)
    THEN walkEntries(f, cfg, entries, i + 1, rel, level, acc)
    ELSE IF /\ shouldInclude(cfg.IncludePatterns, entries[i].Name)
            /\ ~shouldExclude(cfg.ExcludePatterns, entries[i].Name)
    THEN [found |-> TRUE, deepest |-> acc.deepest]
    ELSE walkEntries(f, cfg, entries, i + 1, rel, level, acc)

\* mutant of hasMatchingDescendants: the levels are counted from 1
hasMatchingDescendantsFromOne(f, cfg, file, level, cancelled) ==
    IF cancelled THEN [found |-> FALSE, deepest |-> -1]
    ELSE walkDir(f, cfg, file.Path, file.Name, 1, level + 1)

\* hasMatchingDescendants(ctx, file.Path) for a directory entry listed at
\* depth level + 1; with the context cancelled the walk stops at once
hasMatchingDescendants(f, cfg, file, level, cancelled) ==
    IF cancelled THEN [found |-> FALSE, deepest |-> -1]
    ELSE walkDir(f, cfg, file.Path, file.Name, 0, level + 1)

\* the filter pass of renderTreeRecursive (part_002:112-138)
RECURSIVE treeFilter(_, _, _, _, _, _)
treeFilter(f, cfg, files, i, level, cancelled) ==
    IF i > Len(files) THEN <<>>
    ELSE LET file == files[i]
             keep == IF Len(cfg.IncludePatterns) > 0
                     THEN IF file.IsDir
                          THEN hasMatchingDescendants(f, cfg, file, level, cancelled).found
                          ELSE /\ shouldInclude(cfg.IncludePatterns, file.Name)
                               /\ ~shouldExclude(cfg.ExcludePatterns, file.Name)
                     ELSE ~shouldExclude(cfg.ExcludePatterns, file.Name)
         IN  (IF keep THEN <<file>> ELSE <<>>)
             \o treeFilter(f, cfg, files, i + 1, level, cancelled)

\* the deepest level the filter pass read a directory at
RECURSIVE treeScanDeepest(_, _, _, _, _, _)
treeScanDeepest(f, cfg, files, i, level, cancelled) ==
    IF i > Len(files) \/ Len(cfg.IncludePatterns) = 0 THEN -1
    ELSE Max(IF files[i].IsDir
             THEN hasMatchingDescendants(f, cfg, files[i], level, cancelled).deepest
             ELSE -1,
             treeScanDeepest(f, cfg, files, i + 1, level, cancelled))

\* renderTreeRecursive returns err from its innermost frame: a nested call's
\* result is dropped by its caller (part_002:191); the outermost returns to
\* Render, which turns context.Canceled into the message and nil, and
\* List returns what Render returns (part_002:58-63, lister.go:112)
TreeReturn(err) ==
    /\ stack' = SubSeq(stack, 1, Len(stack) - 1)
    /\ IF Len(stack) = 1
       THEN /\ Return("nil")
            /\ cancelMsg' = (cancelMsg \/ err = "canceled")
       ELSE UNCHANGED <<pc, result, ctxDone, cancelMsg>>

\* renderTreeRecursive from its entry to the first sort (part_002:67-110)
TreeEnter ==
    /\ pc = "tree"
    /\ Len(stack) > 0
    /\ LET top == stack[Len(stack)] IN
       /\ top.phase = "enter"
       /\ IF ctxDone
          THEN /\ TreeReturn("canceled")
               /\ observed' = TRUE
               /\ UNCHANGED <<ev, nRead, nErr>>
          ELSE IF treeDepthReached(config, top.level)
          THEN /\ TreeReturn("nil")
               /\ ev' = Event(IF top.level = config.MaxDepth THEN "max depth" ELSE "skipped",
                              top.path, top.level)
               /\ UNCHANGED <<observed, nRead, nErr>>
          ELSE IF ReadDirFails(fs, top.path)
          THEN /\ TreeReturn("nil")
               /\ ev' = Event("failed", top.path, top.level)
               /\ nRead' = nRead + 1
               /\ nErr' = nErr + 1
               /\ UNCHANGED observed
          ELSE \E files \in SortOutcomes(sortStrat(config),
                                treeFiles(config, ReadDir(fs, top.path), 1),
                                config.Reverse) :
               /\ stack' = [stack EXCEPT ![Len(stack)] =
                              [top EXCEPT !.phase = "filter", !.files = files]]
               /\ ev' = Event("read", top.path, top.level)
               /\ nRead' = nRead + 1
               /\ UNCHANGED <<pc, result, ctxDone, cancelMsg, observed, nErr>>
    /\ UNCHANGED <<config, fs, path, sigChan, sigCount, listener, dirs, dirCount,
                   nOut, scanLevel, dequeued, call, ret>>

\* renderTreeRecursive: the filter pass and the second sort (part_002:112-142)
TreeFilter ==
    /\ pc = "tree"
    /\ Len(stack) > 0
    /\ LET top == stack[Len(stack)] IN
       /\ top.phase = "filter"
       /\ \E files \in SortOutcomes(sortStrat(config),
                          treeFilter(fs, config, top.files, 1, top.level, ctxDone),
                          config.Reverse) :
            stack' = [stack EXCEPT ![Len(stack)] =
                        [top EXCEPT !.phase = "loop", !.files = files, !.i = 1]]
       /\ scanLevel' = Max(scanLevel,
                           treeScanDeepest(fs, config, top.files, 1, top.level, ctxDone))
       /\ observed' = (observed \/ (/\ ctxDone
                                    /\ Len(config.IncludePatterns) > 0
                                    /\ \E i \in 1..Len(top.files) : top.files[i].IsDir))
    /\ UNCHANGED <<config, fs, path, pc, sigChan, sigCount, listener, ctxDone, dirs,
                   dirCount, result, ev, nRead, nOut, nErr, cancelMsg, dequeued,
                   call, ret>>

\* renderTreeRecursive: one iteration of the loop over files, or its end
\* (part_002:144-195)
TreeLoop ==
    /\ pc = "tree"
    /\ Len(stack) > 0
    /\ LET top == stack[Len(stack)] IN
       /\ top.phase = "loop"
       /\ IF top.i > Len(top.files)
          THEN /\ TreeReturn("nil")
               /\ UNCHANGED <<ev, nOut, observed>>
          ELSE IF ctxDone
          THEN /\ TreeReturn("canceled")
               /\ observed' = TRUE
               /\ UNCHANGED <<ev, nOut>>
          ELSE LET file == top.files[top.i]
                   caller == [stack EXCEPT ![Len(stack)] = [top EXCEPT !.i = top.i + 1]]
               IN  /\ ev' = Event("line", top.path, top.level)
                   /\ nOut' = nOut + 1
                   /\ stack' = IF file.IsDir
                               THEN Append(caller, [path |-> file.Path, level |-> top.level + 1,
                                                    phase |-> "enter", files |-> <<>>, i |-> 1])
                               ELSE caller
                   /\ UNCHANGED <<pc, result, ctxDone, cancelMsg, observed>>
    /\ UNCHANGED <<config, fs, path, sigChan, sigCount, listener, dirs, dirCount,
                   nRead, nErr, scanLevel, dequeued, call, ret>>

-----------------------------------------------------------------------------
(* Specifications *)

\* bound: the largest --max-depth the invocations of Spec are given
MaxCfgDepth == 2

\* the glob patterns the invocations are given: "*.t", "c", "?"
PatT == <<42, 46, 116>>
PatC == <<99>>
PatAny1 == <<63>>

\* config.Config as the flags can set it, plus the engine that runs it:
\* "lister" is internal/lister (cmd/lu), "lu" is lu.go's DirectoryLister
Configs(depths, sorts, includes, excludes) ==
    { c \in [engine : {"lister", "lu"}, Tree : BOOLEAN, Recursive : BOOLEAN,
             MaxDepth : depths, ShowHidden : BOOLEAN,
             SortSize : BOOLEAN, SortExtension : BOOLEAN, SortModified : BOOLEAN,
             Reverse : BOOLEAN, IncludePatterns : includes, ExcludePatterns : excludes] :
        /\ c.engine = "lu" => ~c.Tree
        /\ ~(c.Tree /\ c.Recursive)
        /\ <<c.SortSize, c.SortExtension, c.SortModified>> \in sorts }

\* the state of an invocation before List is called
Idle ==
    /\ pc = "start"
    /\ sigChan = 0
    /\ sigCount = 0
    /\ listener = "idle"
    /\ ctxDone = FALSE
    /\ dirs = <<>>
    /\ dirCount = 0
    /\ stack = <<>>
    /\ result = "none"
    /\ ev = Event("none", 0, 0)
    /\ nRead = 0
    /\ nOut = 0
    /\ nErr = 0
    /\ observed = FALSE
    /\ cancelMsg = FALSE
    /\ scanLevel = -1
    /\ dequeued = <<>>

NoCall ==
    /\ call = [op |-> "none"]
    /\ ret = [done |-> FALSE, val |-> <<>>]

\* no invocation of List: the specifications of the pure functions
NoInvocation ==
    /\ config = [engine |-> "none"]
    /\ fs = [kind |-> "none"]
    /\ path = "none"
    /\ Idle

Init ==
    /\ config \in Configs(0..MaxCfgDepth,
                          {<<FALSE, FALSE, FALSE>>, <<TRUE, FALSE, FALSE>>,
                           <<FALSE, TRUE, FALSE>>, <<FALSE, TRUE, TRUE>>,
                           <<FALSE, FALSE, TRUE>>},
                          {<<>>, <<PatT>>}, {<<>>, <<PatC>>})
    /\ fs = [kind |-> "small"]
    /\ path \in {"dir", "file", "missing"}
    /\ Idle
    /\ NoCall

Next ==
    \/ ListStart
    \/ ListValidate
    \/ ListFlat
    \/ RecCheck
    \/ RecProcess
    \/ TreeEnter
    \/ TreeFilter
    \/ TreeLoop
    \/ SignalArrives
    \/ ListenerSignal
    \/ ListenerCtxDone

Spec == Init /\ [][Next]_vars

\* bound: the depth of the single chain of directories SpecDeep lists
DeepLen == 32

\* bounds: SpecMany lists ManyChains chains of ManyLen nested directories,
\* 1 + ManyChains * ManyLen directories in all
ManyChains == 8
ManyLen == 1251

NextRec ==
    \/ ListStart
    \/ ListValidate
    \/ RecCheck
    \/ RecProcess
    \/ SignalArrives
    \/ ListenerSignal
    \/ ListenerCtxDone

\* recursive listings with --max-depth 0 of a tree deeper than 30 levels
InitDeep ==
    /\ config \in { c \in Configs({0}, {<<FALSE, FALSE, FALSE>>}, {<<>>}, {<<>>}) :
                      c.Recursive /\ ~c.ShowHidden /\ ~c.Reverse }
    /\ fs = [kind |-> "chains", k |-> 1, len |-> DeepLen]
    /\ path = "dir"
    /\ Idle
    /\ NoCall

SpecDeep == InitDeep /\ [][NextRec]_vars

\* recursive listings of a tree of more than 10,000 directories
InitMany ==
    /\ config \in { c \in Configs({0, ManyLen + 1}, {<<FALSE, FALSE, FALSE>>}, {<<>>}, {<<>>}) :
                      c.Recursive /\ ~c.ShowHidden /\ ~c.Reverse }
    /\ fs = [kind |-> "chains", k |-> ManyChains, len |-> ManyLen]
    /\ path = "dir"
    /\ Idle
    /\ NoCall

SpecMany == InitMany /\ [][NextRec]_vars

\* the glob pattern "x.*"
PatX == <<120, 46, 42>>

\* bound: the longest chain of directories SpecScan lists
MaxNest == 7

\* the file at the end of the chain: "x.t", ".h.t" or "x.c"
ScanLeaves == { <<120, 46, 116>>, <<46, 104, 46, 116>>, <<120, 46, 99>> }

NextTree ==
    \/ ListStart
    \/ ListValidate
    \/ TreeEnter
    \/ TreeFilter
    \/ TreeLoop
    \/ SignalArrives
    \/ ListenerSignal
    \/ ListenerCtxDone

\* tree listings with the include pattern "*.t" of chains of directories
\* that hold one file, up to MaxNest levels below the root
InitScan ==
    /\ config \in { c \in Configs({0, 3}, {<<FALSE, FALSE, FALSE>>}, {<<PatT>>},
                                  {<<>>, <<PatAny1>>, <<PatX>>}) :
                      c.Tree /\ ~c.Reverse }
    /\ \E len \in 1..MaxNest : \E leaf \in ScanLeaves : \E hiddenAt \in 0..len :
           fs = [kind |-> "scan", len |-> len, leaf |-> leaf, hiddenAt |-> hiddenAt]
    /\ path = "dir"
    /\ Idle
    /\ NoCall

SpecScan == InitScan /\ [][NextTree]_vars

-----------------------------------------------------------------------------
(* Filter.Apply and the sort strategies as functions of their inputs *)

\* bound: the longest file list Filter.Apply is given
MaxFiles == 3

\* bound: the longest file list the sort strategies are given
MaxSortLen == 3

\* "a*"
PatAStar == <<97, 42>>

FileEntry(name, isDir, size, modTime) ==
    [Name |-> name, Path |-> 0, Size |-> size, ModTime |-> modTime,
     IsDir |-> isDir, IsHidden |-> HasDotPrefix(name)]

SeqsUpTo(S, n) == UNION { [1..k -> S] : k \in 0..n }

\* a, .a, a.t, .t
FilterEntries ==
    { FileEntry(<<97>>, TRUE, 8, 1), FileEntry(<<46, 97>>, FALSE, 1, 1),
      FileEntry(<<97, 46, 116>>, FALSE, 2, 1), FileEntry(<<46, 116>>, FALSE, 3, 1) }

InitFilter ==
    /\ NoInvocation
    /\ call \in [op : {"Apply"},
                 f : [includePatterns : {<<>>, <<PatT>>, <<PatAStar>>, <<PatC, PatAny1>>},
                      excludePatterns : {<<>>, <<PatAStar>>, <<PatAny1>>, <<PatC, PatT>>}],
                 files : SeqsUpTo(FilterEntries, MaxFiles),
                 showHidden : BOOLEAN]
    /\ ret = [done |-> FALSE, val |-> <<>>]

\* files = d.filter.Apply(files, d.config.ShowHidden)
FilterApply ==
    /\ call.op = "Apply"
    /\ ~ret.done
    /\ ret' = [done |-> TRUE, val |-> Apply(call.f, call.files, call.showHidden)]
    /\ UNCHANGED <<travVars, call>>

SpecFilter == InitFilter /\ [][FilterApply]_vars

\* directories b, A, a and files a.t, B.T, c, with ties in every key
SortEntries ==
    { FileEntry(<<98>>, TRUE, 1, 1), FileEntry(<<65>>, TRUE, 2, 2),
      FileEntry(<<97>>, TRUE, 1, 2), FileEntry(<<97, 46, 116>>, FALSE, 2, 1),
      FileEntry(<<66, 46, 84>>, FALSE, 1, 2), FileEntry(<<99>>, FALSE, 2, 3) }

\* TestNameSortStrategy's input: file.txt, dir/, another.txt (an hour, a
\* minute and no time old)
TestNameSortFiles ==
    << FileEntry(<<102, 105, 108, 101, 46, 116, 120, 116>>, FALSE, 0, 1),
       FileEntry(<<100, 105, 114>>, TRUE, 0, 2),
       FileEntry(<<97, 110, 111, 116, 104, 101, 114, 46, 116, 120, 116>>, FALSE, 0, 3) >>

InitSort ==
    /\ NoInvocation
    /\ call \in [op : {"Sort"},
                 strategy : {"name", "time", "size", "extension"},
                 files : SeqsUpTo(SortEntries, MaxSortLen) \cup {TestNameSortFiles},
                 reverse : BOOLEAN]
    /\ ret = [done |-> FALSE, val |-> <<>>]

\* d.sortStrat.Sort(files, d.config.Reverse)
SortCall ==
    /\ call.op = "Sort"
    /\ ~ret.done
    /\ \E sorted \in SortOutcomes(call.strategy, call.files, call.reverse) :
           ret' = [done |-> TRUE, val |-> sorted]
    /\ UNCHANGED <<travVars, call>>

SpecSort == InitSort /\ [][SortCall]_vars

-----------------------------------------------------------------------------
(* Claims *)

\* the event kinds that read a directory or render its entries
ReadOrRender == {"read", "table", "line", "failed", "empty"}

\* a recursive or tree listing of a directory under a depth limit D > 0
DepthLimited ==
    /\ path = "dir"
    /\ config.MaxDepth > 0
    /\ config.Recursive \/ config.Tree

\* what C1 says of the traversal itself: nothing at depth >= D is listed or
\* rendered, a directory at depth D only gets the notice, nothing below it
\* is queued or descended into, and D = 1 lists the root alone
TraversalStopsAtDepth ==
    /\ ev.kind \in ReadOrRender => ev.level < config.MaxDepth
    /\ ev.kind \in {"max depth", "skipped"} =>
           ev.kind = "max depth" /\ ev.level = config.MaxDepth
    /\ \A i \in 1..Len(dirs) : dirs[i].level <= config.MaxDepth
    /\ \A i \in 1..Len(stack) : stack[i].level <= config.MaxDepth
    /\ config.MaxDepth = 1 =>
           nRead <= 1 /\ (ev.kind \in ReadOrRender => ev.path = 0)

\* C1 as stated: under a depth limit D > 0 no directory at depth >= D is
\* ever read or rendered (by the traversal or by anything else), a directory
\* at depth D only gets the notice, and its children are never queued.
C1_NoReadAtOrBelowMaxDepth ==
    DepthLimited => TraversalStopsAtDepth /\ scanLevel < config.MaxDepth

\* C1, amended: the traversal never lists or renders a directory at depth
\* >= D; the only reads at depth >= D are those of tree mode's
\* include-pattern pre-scan (hasMatchingDescendants).
C1_TraversalStopsAtMaxDepth ==
    DepthLimited =>
        /\ TraversalStopsAtDepth
        /\ scanLevel >= config.MaxDepth =>
               config.Tree /\ Len(config.IncludePatterns) > 0

\* a recursive listing with D = 1 that ended having read the root alone and
\* printed the notice for a directory at depth 1
C1_Witness ==
    /\ DepthLimited /\ config.Recursive /\ config.MaxDepth = 1
    /\ pc = "done" /\ nRead = 1 /\ nOut = 1
    /\ ev.kind = "max depth" /\ ev.level = 1

C3_AtMostMaxDirsRead ==
    /\ nRead <= maxDirs
    /\ dirCount <= maxDirs + 1
    /\ dirCount > maxDirs => ev.kind = "limit"
    /\ ev.kind = "limit" =>
           /\ pc = "done" /\ result = "nil"
           /\ nRead = maxDirs /\ dirCount = maxDirs + 1

\* the limit was hit with directories still queued
C3_Witness ==
    /\ ev.kind = "limit" /\ Len(dirs) > 0
    /\ pc = "done" /\ result = "nil" /\ nRead = maxDirs

\* C4 as stated: in recursive mode, once the context is cancelled no further
\* directory is read or rendered.
C4_NothingReadOnceCancelled ==
    [][(config.Recursive /\ ctxDone /\ pc # "done") =>
           (nRead' = nRead /\ nOut' = nOut)]_vars

\* C4, amended: the signal is looked at only by the check at the head of
\* each iteration.  When that check finds the context cancelled nothing
\* further is read or rendered and the traversal ends there, the queue left
\* as it is; a directory whose check came before the signal is still
\* processed.
C4_NothingReadOnceCancelSeen ==
    [][(config.Recursive /\ ctxDone /\ pc = "rec_check" /\ Len(dirs) > 0) =>
           /\ nRead' = nRead /\ nOut' = nOut /\ dirs' = dirs
           /\ pc' \in {"rec_check", "done"}
           /\ pc' = "done" => observed' /\ cancelMsg']_vars

\* a recursive listing stopped by a signal after it had read a directory,
\* with directories left in the queue
C4_Witness ==
    /\ config.Recursive /\ observed /\ pc = "done"
    /\ nRead >= 1 /\ Len(dirs) > 0

\* C5: a cancelled recursive listing prints "Operation cancelled by user"
\* and List returns no error.
C5_CancelIsNotAnError ==
    (config.Recursive /\ pc = "done" /\ observed) =>
        (cancelMsg /\ result = "nil")

\* C6: whenever some level of a tree listing stopped early on the cancelled
\* context, Render has printed "Operation cancelled by user" and returned
\* nil.  (That no entry line follows the observation holds, see
\* TreeSilentOnceCancelSeen.)
C6_TreeCancelReported ==
    (config.Tree /\ pc = "done" /\ observed) =>
        (cancelMsg /\ result = "nil")

\* the part of C6 the code keeps: no entry line after the observation, and
\* Render returns nil
TreeSilentOnceCancelSeen ==
    [][config.Tree =>
           /\ observed => nOut' = nOut
           /\ pc' = "done" /\ path = "dir" => result' = "nil"]_vars

C8_InvalidPathFailsFirst ==
    path # "dir" =>
        /\ pc \in {"start", "validate", "done"}
        /\ nRead = 0 /\ nOut = 0 /\ nErr = 0 /\ scanLevel = -1
        /\ ev.kind = "none" /\ ~cancelMsg
        /\ pc = "done" =>
               result = (IF path = "missing" THEN "stat error" ELSE "not a directory")

\* List in tree mode returned the error for a path that names a file
C8_Witness ==
    /\ path = "file" /\ config.Tree
    /\ pc = "done" /\ result = "not a directory"

\* what C9 says Filter.Apply keeps
C9_Keeps(file) ==
    /\ call.showHidden \/ ~file.IsHidden
    /\ \A i \in 1..Len(call.f.excludePatterns) : ~Match(call.f.excludePatterns[i], file.Name)
    /\ \/ call.f.includePatterns = <<>>
       \/ \E i \in 1..Len(call.f.includePatterns) : Match(call.f.includePatterns[i], file.Name)

\* C9: Filter.Apply returns, in the input's order, exactly the entries that
\* are shown (not hidden, or show_hidden), match no exclude pattern and, when
\* include patterns are configured, match one of them.
C9_ApplyKeepsExactlyTheMatching ==
    (call.op = "Apply" /\ ret.done) => ret.val = SelectSeq(call.files, C9_Keeps)

\* Apply dropped an entry that matches an include and an exclude pattern and
\* kept another one
C9_Witness ==
    /\ call.op = "Apply" /\ ret.done /\ ret.val # <<>>
    /\ \E i \in 1..Len(call.files) :
           /\ shouldInclude(call.f.includePatterns, call.files[i].Name)
           /\ shouldExclude(call.f.excludePatterns, call.files[i].Name)
           /\ ~call.files[i].IsHidden
           /\ \A j \in 1..Len(ret.val) : ret.val[j] # call.files[i]

\* C10: after a Name, Size or Extension sort, with reverse or without, every
\* directory precedes every non-directory.
C10_DirectoriesFirst ==
    (call.op = "Sort" /\ ret.done /\ call.strategy \in {"name", "size", "extension"}) =>
        \A i, j \in 1..Len(ret.val) : (i < j /\ ret.val[j].IsDir) => ret.val[i].IsDir

\* a reversed Size sort moved a directory in front of a file that preceded it
C10_Witness ==
    /\ call.op = "Sort" /\ ret.done /\ call.strategy = "size" /\ call.reverse
    /\ Len(call.files) = 3
    /\ ~call.files[1].IsDir /\ call.files[3].IsDir
    /\ ret.val[1].IsDir /\ ~ret.val[3].IsDir

\* the position a stable sort gives x in an already sorted list: behind every
\* entry that x is not less than
RECURSIVE StableInsert(_, _, _, _)
StableInsert(sorted, x, strategy, reverse) ==
    IF sorted = <<>> THEN <<x>>
    ELSE IF Less(strategy, x, Head(sorted), reverse) THEN <<x>> \o sorted
    ELSE <<Head(sorted)>> \o StableInsert(Tail(sorted), x, strategy, reverse)

\* the one ordering of files a stable sort produces
RECURSIVE StableSort(_, _, _)
StableSort(strategy, files, reverse) ==
    IF files = <<>> THEN <<>>
    ELSE StableInsert(StableSort(strategy, SubSeq(files, 1, Len(files) - 1), reverse),
                      files[Len(files)], strategy, reverse)

\* C11: every strategy is stable: the output is the input ordered by the
\* strategy's key with entries of equal key left in their input order, so the
\* same input always gives the same output sequence.
C11_SortIsStable ==
    (call.op = "Sort" /\ ret.done) =>
        ret.val = StableSort(call.strategy, call.files, call.reverse)

\* the number of positions of s that hold e
Count(s, e) == Cardinality({ i \in 1..Len(s) : s[i] = e })

\* the output of a sort holds the entries of its input, each as often
SortPermutes ==
    /\ Len(ret.val) = Len(call.files)
    /\ \A i \in 1..Len(call.files) :
           Count(ret.val, call.files[i]) = Count(call.files, call.files[i])

\* a has to come before b within one group: name and extension ascending
\* without regard to case, size descending; reverse exchanges the two
C12_Before(strategy, a, b, reverse) ==
    LET x == IF reverse THEN b ELSE a
        y == IF reverse THEN a ELSE b
    IN  CASE strategy = "name" -> StrLess(ToLower(x.Name), ToLower(y.Name))
          [] strategy = "extension" -> StrLess(ToLower(Ext(x.Name)), ToLower(Ext(y.Name)))
          [] strategy = "size" -> x.Size > y.Size

\* C12: within the directories and within the files, Name orders by
\* case-insensitive name ascending, Extension by case-insensitive extension
\* ascending, Size by size descending; reverse flips this order within the
\* groups and changes nothing else (the entries are the input's).  Name
\* ascending on [file.txt, dir/, another.txt] gives [dir, another.txt, file.txt].
C12_WithinGroupOrder ==
    (call.op = "Sort" /\ ret.done /\ call.strategy \in {"name", "size", "extension"}) =>
        /\ SortPermutes
        /\ \A i, j \in 1..Len(ret.val) :
               (i < j /\ ret.val[i].IsDir = ret.val[j].IsDir) =>
                   ~C12_Before(call.strategy, ret.val[j], ret.val[i], call.reverse)
        /\ (call.strategy = "name" /\ ~call.reverse /\ call.files = TestNameSortFiles) =>
               ret.val = <<TestNameSortFiles[2], TestNameSortFiles[3], TestNameSortFiles[1]>>

\* a reversed Name sort of a.t, B.T put B.T first; the test's list was sorted
\* in another behaviour, see C12_ScenarioSorted
C12_Witness ==
    /\ call.op = "Sort" /\ ret.done /\ call.strategy = "name" /\ call.reverse
    /\ call.files = <<FileEntry(<<97, 46, 116>>, FALSE, 2, 1),
                      FileEntry(<<66, 46, 84>>, FALSE, 1, 2)>>
    /\ ret.val = <<call.files[2], call.files[1]>>

\* TestNameSortStrategy's list was sorted by Name ascending
C12_ScenarioSorted ==
    /\ call.op = "Sort" /\ ret.done /\ call.strategy = "name" /\ ~call.reverse
    /\ call.files = TestNameSortFiles
    /\ ret.val[1].IsDir

\* C13: the Time strategy orders all entries, directories and files alike, by
\* modification time: newest first, and oldest first under reverse.
C13_TimeOrder ==
    (call.op = "Sort" /\ ret.done /\ call.strategy = "time") =>
        /\ SortPermutes
        /\ \A i, j \in 1..Len(ret.val) :
               i < j => IF call.reverse
                        THEN ret.val[i].ModTime <= ret.val[j].ModTime
                        ELSE ret.val[i].ModTime >= ret.val[j].ModTime

\* a Time sort moved a newer file in front of an older directory that
\* preceded it in the input
C13_Witness ==
    /\ call.op = "Sort" /\ ret.done /\ call.strategy = "time" /\ ~call.reverse
    /\ Len(call.files) = 2
    /\ call.files[1].IsDir /\ ~call.files[2].IsDir
    /\ call.files[1].ModTime < call.files[2].ModTime
    /\ ret.val = <<call.files[2], call.files[1]>>

-----------------------------------------------------------------------------
(* getTerminalWidth: the environment is the COLUMNS variable (the empty      *)
(* string when unset), what term.GetSize answers for stdout and what the     *)
(* subprocess `tput cols` answers.                                           *)

IsDigit(c) == c >= 48 /\ c <= 57

\* the value of a string of decimal digits
RECURSIVE DigitsValue(_)
DigitsValue(s) ==
    IF s = <<>> THEN 0
    ELSE 10 * DigitsValue(SubSeq(s, 1, Len(s) - 1)) + (s[Len(s)] - 48)

\* strconv.Atoi: an optional sign and then one or more decimal digits
Atoi(s) ==
    LET signed == Len(s) > 0 /\ s[1] \in {43, 45}
        digits == IF signed THEN Tail(s) ELSE s
    IN  IF digits = <<>> \/ \E i \in 1..Len(digits) : ~IsDigit(digits[i])
        THEN [err |-> TRUE, val |-> 0]
        ELSE [err |-> FALSE,
              val |-> IF signed /\ s[1] = 45 THEN 0 - DigitsValue(digits)
                      ELSE DigitsValue(digits)]

\* unicode.IsSpace on the code points below 256
IsSpace(c) == c \in {9, 10, 11, 12, 13, 32, 133, 160}

\* strings.TrimSpace
RECURSIVE TrimSpace(_)
TrimSpace(s) ==
    IF s = <<>> THEN s
    ELSE IF IsSpace(s[1]) THEN TrimSpace(Tail(s))
    ELSE IF IsSpace(s[Len(s)]) THEN TrimSpace(SubSeq(s, 1, Len(s) - 1))
    ELSE s

\* the safety margin getTerminalWidth subtracts from a reported width
widthMargin == 10

\* the width getTerminalWidth returns when nothing reports one
fallbackWidth == 70

getTerminalWidth(env) ==
    LET w == Atoi(env.COLUMNS)
        t == Atoi(TrimSpace(env.tput.output))
    IN  IF env.COLUMNS # <<>> /\ ~w.err /\ w.val > 0 THEN w.val - widthMargin
        ELSE IF ~env.size.err /\ env.size.width > 0 THEN env.size.width - widthMargin
        ELSE IF ~env.tput.err /\ ~t.err /\ t.val > 0 THEN t.val - widthMargin
        ELSE fallbackWidth

\* strconv.Itoa for n >= 0, to write the numbers in COLUMNS and tput's answer
RECURSIVE Itoa(_)
Itoa(n) == IF n < 10 THEN <<48 + n>> ELSE Itoa(n \div 10) \o <<48 + (n % 10)>>

\* bound: the widest terminal, in columns
MaxColumns == 160

\* term.GetSize fails (stdout is no terminal) and there is no tput
NoSize == [err |-> TRUE, width |-> 0]
NoTput == [err |-> TRUE, output |-> <<>>]

\* COLUMNS: unset, every number up to MaxColumns, "-80", "+62", "8x", " 80", "x"
ColumnsValues ==
    { Itoa(n) : n \in 0..MaxColumns }
        \cup { <<>>, <<45, 56, 48>>, <<43, 54, 50>>, <<56, 120>>, <<32, 56, 48>>, <<120>> }

\* term.GetSize: an error, or a width of 0, 7, 10, 11 or 80 columns
SizeAnswers == {NoSize} \cup { [err |-> FALSE, width |-> w] : w \in {0, 7, 10, 11, 80} }

\* tput cols: an error, or the output "", "80\n", "9\n", "0\n" or "x\n"
TputAnswers ==
    {NoTput} \cup { [err |-> FALSE, output |-> o] :
                      o \in {<<>>, <<56, 48, 10>>, <<57, 10>>, <<48, 10>>, <<120, 10>>} }

InitWidth ==
    /\ NoInvocation
    /\ call \in [op : {"getTerminalWidth"},
                 env : [COLUMNS : ColumnsValues, size : SizeAnswers, tput : TputAnswers]]
    /\ ret = [done |-> FALSE, val |-> <<>>]

\* width := getTerminalWidth()
GetTerminalWidth ==
    /\ call.op = "getTerminalWidth"
    /\ ~ret.done
    /\ ret' = [done |-> TRUE, val |-> getTerminalWidth(call.env)]
    /\ UNCHANGED <<travVars, call>>

SpecWidth == InitWidth /\ [][GetTerminalWidth]_vars

\* C20: getTerminalWidth returns a positive width for every environment:
\* whatever COLUMNS holds, whatever size the terminal reports and whatever the
\* subprocess answers, the width less the margin, or the fallback, is > 0.
C20_WidthIsPositive ==
    (call.op = "getTerminalWidth" /\ ret.done) => ret.val > 0

-----------------------------------------------------------------------------
(* Table.Render (internal/renderer, engine "lister") and TableRenderer.Render *)
(* (lu.go, engine "lu").  A cell of the table data is represented by its      *)
(* display width, the number of runes StripANSI leaves of it; a file of this  *)
(* part is the record of the cell widths its columns format to.               *)

\* the widths of "Name", "Size", "Modified", "Perms", "Git", "User", "Group"
headerWidths(cfg) ==
    <<4, 4, 8, 5>> \o (IF cfg.ShowGit THEN <<3>> ELSE <<>>)
                   \o (IF cfg.ShowUser THEN <<4, 5>> ELSE <<>>)

\* one row: name, size, modified, permissions and the optional columns
rowWidths(cfg, file) ==
    <<file.Name, file.Size, file.Modified, file.Perms>>
        \o (IF cfg.ShowGit THEN <<file.Git>> ELSE <<>>)
        \o (IF cfg.ShowUser THEN <<file.User, file.Group>> ELSE <<>>)

buildTableData(cfg, files) ==
    <<headerWidths(cfg)>> \o [i \in 1..Len(files) |-> rowWidths(cfg, files[i])]

\* the widest cell of column j in the rows from r on
RECURSIVE columnWidth(_, _, _)
columnWidth(data, j, r) ==
    IF r > Len(data) THEN 0 ELSE Max(data[r][j], columnWidth(data, j, r + 1))

calculateDisplayWidths(data) ==
    IF data = <<>> THEN <<>> ELSE [j \in 1..Len(data[1]) |-> columnWidth(data, j, 1)]

\* lookupMin; idx counts from 1 here
lookupMin(mins, idx, fallback) ==
    IF idx <= Len(mins) /\ mins[idx] > 0 THEN mins[idx] ELSE fallback

columnConstraints(engine, cfg) ==
    LET exact == engine = "lister" /\ cfg.ShowExactTime
    IN  [mins |-> <<15, 6, IF exact THEN 16 ELSE 10, 10>>
                      \o (IF cfg.ShowGit THEN <<6>> ELSE <<>>)
                      \o (IF cfg.ShowUser THEN <<6, 6>> ELSE <<>>),
         maxs |-> <<50, 10, IF exact THEN 17 ELSE 15, 12>>
                      \o (IF cfg.ShowGit THEN <<12>> ELSE <<>>)
                      \o (IF cfg.ShowUser THEN <<12, 12>> ELSE <<>>)]

\* mutant of clamp: the maximum is not applied
clampMinOnly(w, mins, maxs, i) ==
    IF i <= Len(mins) /\ mins[i] > 0 /\ w < mins[i] THEN mins[i] ELSE w

\* Render's first loop over displayWidths, for column i
clamp(w, mins, maxs, i) ==
    LET atLeast == IF i <= Len(mins) /\ mins[i] > 0 /\ w < mins[i] THEN mins[i] ELSE w
    IN  IF i <= Len(maxs) /\ maxs[i] > 0 /\ atLeast > maxs[i] THEN maxs[i] ELSE atLeast

RECURSIVE Sum(_)
Sum(s) == IF s = <<>> THEN 0 ELSE Head(s) + Sum(Tail(s))

\* Go's integer division, which truncates toward zero (b > 0)
GoDiv(a, b) == IF a >= 0 THEN a \div b ELSE 0 - ((0 - a) \div b)

Min(a, b) == IF a <= b THEN a ELSE b

\* mutant of fixedColumn: only the Size column is left alone
fixedColumnSizeOnly(i) == i = 2

\* the columns shrinkColumns leaves alone: Size and Perms (i == 1, i == 3)
fixedColumn(i) == i \in {2, 4}

\* shrinkColumns' first loop
totalShrinkable(displayWidths, mins) ==
    Sum([i \in 1..Len(displayWidths) |->
            IF ~fixedColumn(i) /\ displayWidths[i] - lookupMin(mins, i, 4) > 0
            THEN displayWidths[i] - lookupMin(mins, i, 4) ELSE 0])

\* shrinkColumns' second loop from column i on; the two engines differ in
\* what they take off totalShrinkable
RECURSIVE shrinkLoop(_, _, _, _, _, _)
shrinkLoop(engine, displayWidths, mins, excess, total, i) ==
    IF i > Len(displayWidths) THEN displayWidths
    ELSE LET minWidth == lookupMin(mins, i, 4)
             shrinkable == displayWidths[i] - minWidth
             shrinkAmount == Min(GoDiv(shrinkable * excess, total), shrinkable)
         IN  IF ~fixedColumn(i) /\ shrinkable > 0 /\ total > 0
             THEN shrinkLoop(engine,
                             [displayWidths EXCEPT
                                 ![i] = Max(displayWidths[i] - shrinkAmount, minWidth)],
                             mins, excess - shrinkAmount,
                             IF engine = "lu" THEN total - shrinkable
                             ELSE total - shrinkAmount,
                             i + 1)
             ELSE shrinkLoop(engine, displayWidths, mins, excess, total, i + 1)

shrinkColumns(engine, displayWidths, mins, excess) ==
    shrinkLoop(engine, displayWidths, mins, excess,
               totalShrinkable(displayWidths, mins), 1)

\* the narrowest terminal Render lays a table out for
minTerminalWidth == 40

\* the border overhead of n columns
borderWidth(n) == (n - 1) * 3 + 2

\* mutant of tooSmall: the border is left out of the comparison
tooSmallWithoutBorder(terminalWidth, displayWidths, mins) ==
    terminalWidth < Sum([i \in 1..Len(displayWidths) |-> lookupMin(mins, i, 4)])

\* terminalWidth < minContentWidth+minBorderWidth
tooSmall(terminalWidth, displayWidths, mins) ==
    terminalWidth < Sum([i \in 1..Len(displayWidths) |-> lookupMin(mins, i, 4)])
                        + borderWidth(Len(displayWidths))

\* what Render printed: nothing, the notice, or a table of the given widths
Rendered(out, terminalWidth, widths) ==
    [out |-> out, terminalWidth |-> terminalWidth, widths |-> widths]

Render(engine, cfg, files, env) ==
    LET terminalWidth == Max(getTerminalWidth(env), minTerminalWidth)
        cc == columnConstraints(engine, cfg)
        measured == calculateDisplayWidths(buildTableData(cfg, files))
        displayWidths == [i \in 1..Len(measured) |-> clamp(measured[i], cc.mins, cc.maxs, i)]
        totalWidth == Sum(displayWidths) + borderWidth(Len(displayWidths))
    IN  IF files = <<>> THEN Rendered("nothing", terminalWidth, <<>>)
        ELSE IF tooSmall(terminalWidth, displayWidths, cc.mins)
        THEN Rendered("notice", terminalWidth, <<>>)
        ELSE IF totalWidth > terminalWidth
        THEN Rendered("table", terminalWidth,
                      shrinkColumns(engine, displayWidths, cc.mins, totalWidth - terminalWidth))
        ELSE Rendered("table", terminalWidth, displayWidths)

\* the cell widths one file formats to: the name; "-", "100.0 KB" or
\* "1023.9 KB"; "future", "3 days ago" or "59 seconds ago" (with ShowExactTime
\* "Jan 2, 06 15:04" or "Jan 12, 06 15:04"); ten permission characters; no git
\* status or two characters of it; short and long user and group names.  The
\* columns a configuration does not show are left at 0.
TableRows(cfg) ==
    [Name : {3, 16, 30, 60},
     Size : {1, 8, 9},
     Modified : IF cfg.ShowExactTime THEN {15, 16} ELSE {6, 10, 14},
     Perms : {10},
     Git : IF cfg.ShowGit THEN {0, 2} ELSE {0},
     User : IF cfg.ShowUser THEN {4, 14} ELSE {0},
     Group : IF cfg.ShowUser THEN {5, 13} ELSE {0}]

\* no file, one file, or a long-named directory next to a large file
TableFiles(cfg) ==
    {<<>>} \cup { <<r>> : r \in TableRows(cfg) }
           \cup { <<[r EXCEPT !.Name = 60, !.Size = 1], [r EXCEPT !.Name = 3, !.Size = 9]>> :
                    r \in { r \in TableRows(cfg) : r.Name = 3 /\ r.Size = 1 } }

\* lu.go's Config has no ShowExactTime
TableConfigs(engine) ==
    [ShowExactTime : IF engine = "lister" THEN BOOLEAN ELSE {FALSE},
     ShowGit : BOOLEAN, ShowUser : BOOLEAN]

\* COLUMNS from 45 to MaxColumns or "5"; or nothing that reports a width
TableEnvs ==
    { [COLUMNS |-> c, size |-> NoSize, tput |-> NoTput] :
        c \in { Itoa(n) : n \in 45..MaxColumns } \cup {<<>>, <<53>>} }

InitTable ==
    /\ NoInvocation
    /\ \E engine \in {"lister", "lu"} : \E cfg \in TableConfigs(engine) :
       \E files \in TableFiles(cfg) : \E env \in TableEnvs :
           call = [op |-> "Render", engine |-> engine, cfg |-> cfg,
                   files |-> files, env |-> env]
    /\ ret = [done |-> FALSE, val |-> <<>>]

\* renderer.Render(files, time.Now())
TableRender ==
    /\ call.op = "Render"
    /\ ~ret.done
    /\ ret' = [done |-> TRUE, val |-> Render(call.engine, call.cfg, call.files, call.env)]
    /\ UNCHANGED <<travVars, call>>

SpecTable == InitTable /\ [][TableRender]_vars

\* the minimum and the maximum of the columns of the call
CallConstraints == columnConstraints(call.engine, call.cfg)

\* C14: whenever a table is printed, each column's final width, after
\* clamping and shrinking, is at least the column's minimum and at most its
\* maximum.
C14_WidthsWithinConstraints ==
    (call.op = "Render" /\ ret.done /\ ret.val.out = "table") =>
        /\ Len(ret.val.widths) = Len(CallConstraints.mins)
        /\ \A i \in 1..Len(ret.val.widths) :
               /\ ret.val.widths[i] >= CallConstraints.mins[i]
               /\ ret.val.widths[i] <= CallConstraints.maxs[i]

\* a table was printed whose name column was shrunk below the width the
\* clamping gave it (the longest name has 60 runes, the maximum is 50)
C14_Witness ==
    /\ call.op = "Render" /\ ret.done /\ ret.val.out = "table"
    /\ Len(call.files) = 1 /\ call.files[1].Name = 60
    /\ ret.val.widths[1] < 50 /\ ret.val.widths[1] > 15

\* C15: whenever a table is printed, the final column widths plus the border
\* overhead 3*(columns-1)+2 do not exceed the terminal width of the layout.
C15_TableFitsTerminal ==
    (call.op = "Render" /\ ret.done /\ ret.val.out = "table") =>
        Sum(ret.val.widths) + 3 * (Len(ret.val.widths) - 1) + 2 <= ret.val.terminalWidth

\* the layout's terminal width is below the column minimums plus the border
C16_TooSmall ==
    ret.val.terminalWidth <
        Sum(CallConstraints.mins) + 3 * (Len(CallConstraints.mins) - 1) + 2

\* C16 as stated: if the terminal width is smaller than the column minimums
\* plus the border overhead, the notice is printed and no part of the table;
\* otherwise the table is printed and not the notice.
C16_NoticeIffTooSmall ==
    (call.op = "Render" /\ ret.done) =>
        ret.val.out = IF C16_TooSmall THEN "notice" ELSE "table"

\* C16, amended: for a list of at least one file, the notice is printed and
\* no part of the table if the terminal width is smaller than the column
\* minimums plus the border overhead, and otherwise the table and not the
\* notice; for an empty list nothing is printed, whatever the width.
C16_NoticeIffTooSmallAndFiles ==
    (call.op = "Render" /\ ret.done) =>
        ret.val.out = IF call.files = <<>> THEN "nothing"
                      ELSE IF C16_TooSmall THEN "notice" ELSE "table"

\* the notice was printed for a terminal wider than the 40 columns Render
\* assumes at least: seven columns need 79
C16_Witness ==
    /\ call.op = "Render" /\ ret.done /\ ret.val.out = "notice"
    /\ call.files # <<>>
    /\ ret.val.terminalWidth = 78 /\ ret.val.widths = <<>>

-----------------------------------------------------------------------------
(* truncateMiddle and truncateTail; a string is the sequence of its runes *)

\* utf8.RuneCountInString
runeCount(s) == Len(s)

\* the rune of "…", U+2026
ellipsis == 8230

\* runes[:n]
Prefix(runes, n) == SubSeq(runes, 1, n)

\* runes[len(runes)-n:]
Suffix(runes, n) == SubSeq(runes, Len(runes) - n + 1, Len(runes))

truncateMiddle(s, max) ==
    IF max <= 0 THEN <<>>
    ELSE IF runeCount(s) <= max THEN s
    ELSE IF max = 1 THEN <<ellipsis>>
    ELSE LET head0 == (max - 1) \div 2
             tail0 == max - 1 - head0
             head1 == IF head0 < 1 THEN 1 ELSE head0
             tail1 == IF head0 < 1 THEN max - 1 ELSE tail0
             head == IF tail1 < 1 THEN max - 1 ELSE head1
             tail == IF tail1 < 1 THEN 1 ELSE tail1
         IN  Prefix(s, head) \o <<ellipsis>> \o Suffix(s, tail)

\* mutant of truncateTail: a string that fits gets the ellipsis too
truncateTailAlways(s, max) ==
    IF max <= 0 THEN <<>>
    ELSE IF max = 1 THEN <<ellipsis>>
    ELSE <<ellipsis>> \o Suffix(s, Min(max - 1, Len(s)))

truncateTail(s, max) ==
    IF max <= 0 THEN <<>>
    ELSE IF runeCount(s) <= max THEN s
    ELSE IF max = 1 THEN <<ellipsis>>
    ELSE <<ellipsis>> \o Suffix(s, max - 1)

\* bound: the longest string given to a truncation, in runes
MaxStrLen == 5

\* bound: the largest budget
MaxBudget == 6

\* the strings over a, b and "…" of up to MaxStrLen runes
TruncStrings == SeqsUpTo({97, 98, ellipsis}, MaxStrLen)

\* the inputs of TestTruncateMiddle: "short", "abcdef" and "windsurf"
TestTruncateMiddle ==
    { [op |-> "truncateMiddle", s |-> <<115, 104, 111, 114, 116>>, max |-> 10],
      [op |-> "truncateMiddle", s |-> <<97, 98, 99, 100, 101, 102>>, max |-> 1],
      [op |-> "truncateMiddle", s |-> <<119, 105, 110, 100, 115, 117, 114, 102>>, max |-> 5] }

InitTrunc ==
    /\ NoInvocation
    /\ \/ call \in [op : {"truncateMiddle", "truncateTail"},
                    s : TruncStrings, max : -1..MaxBudget]
       \/ call \in TestTruncateMiddle
    /\ ret = [done |-> FALSE, val |-> <<>>]

\* the truncation the call names
truncate(op, s, max) ==
    IF op = "truncateMiddle" THEN truncateMiddle(s, max) ELSE truncateTail(s, max)

\* name = truncateMiddle(name, maxWidth), truncateTail(target, targetBudget)
Truncate ==
    /\ call.op \in {"truncateMiddle", "truncateTail"}
    /\ ~ret.done
    /\ ret' = [done |-> TRUE, val |-> truncate(call.op, call.s, call.max), times |-> 1]
    /\ UNCHANGED <<travVars, call>>

\* the result is truncated again with the same budget
TruncateAgain ==
    /\ call.op \in {"truncateMiddle", "truncateTail"}
    /\ ret.done /\ ret.times = 1
    /\ ret' = [done |-> TRUE, val |-> truncate(call.op, ret.val, call.max), times |-> 2,
               first |-> ret.val]
    /\ UNCHANGED <<travVars, call>>

NextTrunc == Truncate \/ TruncateAgain

SpecTrunc == InitTrunc /\ [][NextTrunc]_vars

\* C17: for every string and every budget n >= 1, truncateMiddle(s, n) and
\* truncateTail(s, n) have at most n runes.
C17_WithinBudget ==
    (call.op \in {"truncateMiddle", "truncateTail"} /\ ret.done /\ call.max >= 1) =>
        Len(ret.val) <= call.max

\* C18: truncating a truncated string again with the same budget n >= 1
\* changes nothing, for the middle and for the tail strategy, and a string
\* that already fits is returned unchanged.
C18_Idempotent ==
    (call.op \in {"truncateMiddle", "truncateTail"} /\ ret.done /\ call.max >= 1) =>
        /\ (ret.times = 2 => ret.val = ret.first)
        /\ (ret.times = 1 /\ Len(call.s) <= call.max) => ret.val = call.s

\* a string longer than its budget was cut in the middle and cut again
C18_Witness ==
    /\ call.op = "truncateMiddle" /\ ret.done /\ ret.times = 2
    /\ call.max = 4 /\ Len(call.s) = 5
    /\ ret.first = <<call.s[1], ellipsis, call.s[4], call.s[5]>>
    /\ ret.val = ret.first

-----------------------------------------------------------------------------
(* helper.StripANSI; a string is the sequence of its bytes *)

ESC == 27

IsLetter(c) == (c >= 97 /\ c <= 122) \/ (c >= 65 /\ c <= 90)

\* the inner loop: the first position from j on that holds a letter, or the
\* end of the string
RECURSIVE skipParameters(_, _)
skipParameters(s, j) ==
    IF j <= Len(s) /\ ~IsLetter(s[j]) THEN skipParameters(s, j + 1) ELSE j

\* mutant of afterSequence: the final letter of a sequence is not skipped
afterSequenceKeepsLetter(s, j) == skipParameters(s, j)

\* where StripANSI goes on after ESC '[' when the parameters start at j
afterSequence(s, j) == skipParameters(s, j) + 1

\* StripANSI's outer loop from position i on
RECURSIVE stripFrom(_, _, _)
stripFrom(s, i, acc) ==
    IF i > Len(s) THEN acc
    ELSE IF s[i] = ESC
    THEN IF i + 1 <= Len(s) /\ s[i + 1] = 91
         THEN stripFrom(s, afterSequence(s, i + 2), acc)
         ELSE stripFrom(s, i + 1, acc)
    ELSE stripFrom(s, i + 1, Append(acc, s[i]))

StripANSI(s) == stripFrom(s, 1, <<>>)

\* bound: the number of escape sequences on one side of a colored text
MaxWraps == 2

\* bound: the length of the colored text, in bytes
MaxPlainLen == 2

\* ESC '[' <parameters> <letter> with the parameters "" and "3;" and the
\* letters m and K
EscapeSequences ==
    { <<ESC, 91>> \o p \o <<l>> : p \in {<<>>, <<51, 59>>}, l \in {109, 75} }

\* n escape sequences in a row
RECURSIVE Wrappers(_)
Wrappers(n) ==
    IF n = 0 THEN {<<>>}
    ELSE { e \o w : e \in EscapeSequences, w \in Wrappers(n - 1) }

\* texts without ESC over '3', 'm' and the byte 0xE2
PlainTexts == SeqsUpTo({51, 109, 226}, MaxPlainLen)

\* one or several escape sequences in a row
WrapperChoices == UNION { Wrappers(n) : n \in 1..MaxWraps }

\* any string over ESC, '[', '3' and 'm'
OtherInputs == SeqsUpTo({ESC, 91, 51, 109}, MaxPlainLen + 2)

\* the argument is a text between one or several escape sequences on each
\* side, or any other string
InitAnsi ==
    /\ NoInvocation
    /\ \/ \E s \in PlainTexts : \E pre \in WrapperChoices : \E post \in WrapperChoices :
              call = [op |-> "StripANSI", colored |-> TRUE, text |-> s,
                      input |-> pre \o s \o post]
       \/ \E s \in OtherInputs :
              call = [op |-> "StripANSI", colored |-> FALSE, text |-> <<>>, input |-> s]
    /\ ret = [done |-> FALSE, val |-> <<>>]

\* displayText := helper.StripANSI(cell)
Strip ==
    /\ call.op = "StripANSI"
    /\ ~ret.done
    /\ ret' = [done |-> TRUE, val |-> StripANSI(call.input)]
    /\ UNCHANGED <<travVars, call>>

SpecAnsi == InitAnsi /\ [][Strip]_vars

\* C19: a text without ESC that is wrapped in escape sequences of the form
\* ESC '[' <parameters> <letter>, one or several before and after it, is
\* given back by StripANSI, so the colored cell measures as wide as the text;
\* and StripANSI is the identity on strings without ESC.
C19_StripUndoesColor ==
    (call.op = "StripANSI" /\ ret.done) =>
        /\ call.colored => (ret.val = call.text /\ Len(ret.val) = Len(call.text))
        /\ (\A i \in 1..Len(call.input) : call.input[i] # ESC) => ret.val = call.input

\* the text "3m" came back from between two sequences in front and one behind
C19_Witness ==
    /\ call.op = "StripANSI" /\ ret.done /\ call.colored
    /\ call.text = <<51, 109>>
    /\ call.input = <<ESC, 91, 51, 59, 109, ESC, 91, 75, 51, 109, ESC, 91, 109>>
    /\ ret.val = <<51, 109>>

-----------------------------------------------------------------------------
(* Claims on the traversal order, the listener and termination *)

\* the entry of directory parent that names the directory p
EntryOf(parent, p) ==
    LET entries == ReadDir(fs, parent)
    IN  entries[CHOOSE i \in 1..Len(entries) : entries[i].IsDir /\ entries[i].Path = p]

\* the queue holds directories of the head's depth followed by directories
\* one level deeper
QueueInDepthOrder ==
    \A i, j \in 1..Len(dirs) :
        i < j => (dirs[i].level <= dirs[j].level /\ dirs[j].level <= dirs[1].level + 1)

\* C21: recursive mode is breadth-first from the root at depth 0: the queue
\* starts as the root alone, the depths of successively dequeued directories
\* never decrease, every queued directory of depth d stands before every
\* one of depth d+1, and the subdirectories of the dequeued directory are
\* appended behind the rest of the queue at depth d+1 in their sorted order.
C21_BreadthFirstOrder ==
    [][/\ (pc = "validate" /\ pc' = "rec_check") => dirs' = << [path |-> 0, level |-> 0] >>
       /\ (pc = "rec_process" /\ pc' # "rec_process") =>
              LET current == dirs[1]
                  n == Len(dirs) - 1
                  added == SubSeq(dirs', n + 1, Len(dirs'))
              IN  /\ QueueInDepthOrder
                  /\ ev.kind # "none" => current.level >= ev.level
                  /\ ev'.level = current.level /\ ev'.path = current.path
                  /\ Len(dirs') >= n
                  /\ SubSeq(dirs', 1, n) = Tail(dirs)
                  /\ \A i \in 1..Len(added) :
                         /\ added[i].level = current.level + 1
                         /\ \E k \in 1..Len(ReadDir(fs, current.path)) :
                                /\ ReadDir(fs, current.path)[k].IsDir
                                /\ ReadDir(fs, current.path)[k].Path = added[i].path
                  /\ \A i, j \in 1..Len(added) :
                         i < j => /\ added[i].path # added[j].path
                                  /\ ~Less(sortStrat(config),
                                           EntryOf(current.path, added[j].path),
                                           EntryOf(current.path, added[i].path),
                                           config.Reverse)]_vars

\* the directory a (depth 1) was rendered and its subdirectory B queued at
\* depth 2 behind a sibling of a that is still waiting at depth 1
C21_Witness ==
    /\ config.Recursive /\ pc = "rec_check"
    /\ ev.kind = "table" /\ ev.path = 2 /\ ev.level = 1
    /\ Len(dirs) >= 2
    /\ dirs[1].level = 1
    /\ dirs[Len(dirs)] = [path |-> 4, level |-> 2]

-----------------------------------------------------------------------------
(* shrinkColumns on the arguments Render can give it: widths clamped into    *)
(* the constraints of the configuration, and an excess that leaves room for  *)
(* the column minimums                                                       *)

\* bound: the largest excess shrinkColumns is given
MaxExcess == 10

\* each of the first n columns at its minimum, two above it, or at its maximum
RECURSIVE ClampedWidths(_, _)
ClampedWidths(cc, n) ==
    IF n = 0 THEN { <<>> }
    ELSE { Append(w, v) : w \in ClampedWidths(cc, n - 1),
                          v \in {cc.mins[n], Min(cc.mins[n] + 2, cc.maxs[n]), cc.maxs[n]} }

\* what all columns together are wider than their minimums
Slack(w, mins) == Sum([i \in 1..Len(w) |-> w[i] - lookupMin(mins, i, 4)])

InitShrink ==
    /\ NoInvocation
    /\ \E engine \in {"lister", "lu"} : \E cfg \in TableConfigs(engine) :
       \E w \in ClampedWidths(columnConstraints(engine, cfg),
                              Len(columnConstraints(engine, cfg).mins)) :
       \E excess \in 1..MaxExcess :
           /\ excess <= Slack(w, columnConstraints(engine, cfg).mins)
           /\ call = [op |-> "shrinkColumns", engine |-> engine,
                      displayWidths |-> w, mins |-> columnConstraints(engine, cfg).mins,
                      excess |-> excess]
    /\ ret = [done |-> FALSE, val |-> <<>>]

\* r.shrinkColumns(displayWidths, mins, totalWidth-terminalWidth)
ShrinkCall ==
    /\ call.op = "shrinkColumns"
    /\ ~ret.done
    /\ ret' = [done |-> TRUE,
               val |-> shrinkColumns(call.engine, call.displayWidths, call.mins, call.excess)]
    /\ UNCHANGED <<travVars, call>>

SpecShrink == InitShrink /\ [][ShrinkCall]_vars

\* s_i: what column i of the call is wider than its minimum
C22_Shrinkable(i) == call.displayWidths[i] - call.mins[i]

\* T: the shrinkable amounts of the columns other than size and permissions
C22_Total ==
    Sum([i \in 1..Len(call.displayWidths) |->
            IF i \in {2, 4} \/ C22_Shrinkable(i) < 0 THEN 0 ELSE C22_Shrinkable(i)])

\* C22: with excess E, shrinkable amounts s_i and their total T, every column
\* other than size and permissions is reduced by floor(E * s_i / T), computed
\* from the original E and T and capped at s_i.
C22_ProportionalShares ==
    (call.op = "shrinkColumns" /\ ret.done) =>
        \A i \in 1..Len(call.displayWidths) :
            (i \notin {2, 4} /\ C22_Shrinkable(i) > 0 /\ C22_Total > 0) =>
                ret.val[i] = call.displayWidths[i]
                                 - Min((call.excess * C22_Shrinkable(i)) \div C22_Total,
                                       C22_Shrinkable(i))

\* C23: shrinkColumns leaves the size column (index 1) and the permissions
\* column (index 3) as they are, whatever the widths, minimums and excess;
\* the other columns may get narrower and none gets wider.
C23_SizeAndPermsUntouched ==
    (call.op = "shrinkColumns" /\ ret.done) =>
        /\ Len(ret.val) = Len(call.displayWidths)
        /\ ret.val[2] = call.displayWidths[2]
        /\ ret.val[4] = call.displayWidths[4]
        /\ \A i \in 1..Len(ret.val) : ret.val[i] <= call.displayWidths[i]

\* size and permissions were wider than their minimums and kept their
\* widths while the name column was narrowed
C23_Witness ==
    /\ call.op = "shrinkColumns" /\ ret.done
    /\ call.displayWidths[2] > call.mins[2] /\ call.displayWidths[4] > call.mins[4]
    /\ ret.val[2] = call.displayWidths[2] /\ ret.val[4] = call.displayWidths[4]
    /\ ret.val[1] < call.displayWidths[1]


-----------------------------------------------------------------------------
(* truncateSymlinkParts: the name and the target of a symbolic link share one  *)
(* budget; the result also records the branch taken and the two budgets      *)

\* runeCount(" -> ")
arrowLen == 4

SymlinkParts(name, target, branch, nameBudget, targetBudget) ==
    [name |-> name, target |-> target, branch |-> branch,
     nameBudget |-> nameBudget, targetBudget |-> targetBudget]

\* mutant of splitTarget: the target takes what is left beside one unit
splitTargetGreedy(remaining) == remaining - 1

\* targetBudget = min(max(remaining/2, minTarget), remaining-1)
splitTarget(remaining) == Min(Max(remaining \div 2, 2), remaining - 1)

truncateSymlinkParts(name, target, maxWidth) ==
    IF maxWidth <= 0 THEN SymlinkParts(<<>>, <<>>, "none", 0, 0)
    ELSE IF runeCount(name) + arrowLen + runeCount(target) <= maxWidth
         THEN SymlinkParts(name, target, "fits", 0, 0)
    ELSE IF maxWidth <= arrowLen + 1
         THEN SymlinkParts(truncateMiddle(name, maxWidth), <<>>, "name", maxWidth, 0)
    ELSE IF maxWidth - arrowLen - runeCount(name) >= 2
         THEN SymlinkParts(name,
                           truncateTail(target, maxWidth - arrowLen - runeCount(name)),
                           "target", 0, maxWidth - arrowLen - runeCount(name))
    ELSE LET remaining == maxWidth - arrowLen
             targetBudget0 == splitTarget(remaining)
             nameBudget0 == remaining - targetBudget0
             nameBudget == IF nameBudget0 < 1 THEN 1 ELSE nameBudget0
             targetBudget == IF nameBudget0 < 1 THEN remaining - 1 ELSE targetBudget0
         IN  IF remaining <= 1
             THEN SymlinkParts(truncateMiddle(name, maxWidth), <<>>, "name", maxWidth, 0)
             ELSE SymlinkParts(truncateMiddle(name, nameBudget),
                               truncateTail(target, targetBudget),
                               "split", nameBudget, targetBudget)

\* bound: the longest link name, in runes
MaxNameLen == 6

\* bound: the longest link target, in runes
MaxTargetLen == 4

\* bound: the largest width given to truncateSymlinkParts
MaxWidth == 12

\* link names over a and b; a file name is not empty
LinkNames == SeqsUpTo({97, 98}, MaxNameLen) \ { <<>> }

\* link targets over c and d; os.Readlink gives no empty target
LinkTargets == SeqsUpTo({99, 100}, MaxTargetLen) \ { <<>> }

\* the inputs of TestTruncateSymlinkParts
TestTruncateSymlinkParts ==
    LET link == <<108, 105, 110, 107>>
        longTarget == <<47, 97, 47, 118, 101, 114, 121, 47, 108, 111, 110, 103, 47,
                        112, 97, 116, 104, 47, 116, 111, 47, 116, 97, 114, 103, 101, 116>>
    IN  { [op |-> "truncateSymlinkParts", name |-> link,
           target |-> <<47, 116, 109, 112, 47, 116, 97, 114, 103, 101, 116>>, maxWidth |-> 50],
          [op |-> "truncateSymlinkParts", name |-> link, target |-> longTarget, maxWidth |-> 14],
          [op |-> "truncateSymlinkParts",
           name |-> <<118, 101, 114, 121, 108, 111, 110, 103, 108, 105, 110, 107, 110, 97, 109, 101>>,
           target |-> longTarget, maxWidth |-> 10] }

InitSymlink ==
    /\ NoInvocation
    /\ \/ \E name \in LinkNames : \E target \in LinkTargets : \E maxWidth \in -1..MaxWidth :
              call = [op |-> "truncateSymlinkParts", name |-> name, target |-> target,
                      maxWidth |-> maxWidth]
       \/ call \in TestTruncateSymlinkParts
    /\ ret = [done |-> FALSE, val |-> <<>>]

\* truncName, truncTarget := truncateSymlinkParts(name, target, maxWidth)
TruncateSymlink ==
    /\ call.op = "truncateSymlinkParts"
    /\ ~ret.done
    /\ ret' = [done |-> TRUE, val |-> truncateSymlinkParts(call.name, call.target, call.maxWidth)]
    /\ UNCHANGED <<travVars, call>>

SpecSymlink == InitSymlink /\ [][TruncateSymlink]_vars

-----------------------------------------------------------------------------
(* Claims on truncateMiddle and truncateSymlinkParts *)

\* C24: for a string longer than max with max >= 2, truncateMiddle(s, max)
\* is the first h runes, the ellipsis and the last t runes of s, with
\* h = floor((max - 1) / 2) and t = (max - 1) - h, so that h + 1 + t = max;
\* for max = 1 it is the ellipsis alone; truncateMiddle("windsurf", 5) is
\* "wi…rf".
C24_HeadEllipsisTail ==
    (call.op = "truncateMiddle" /\ ret.done /\ ret.times = 1 /\ Len(call.s) > call.max) =>
        /\ call.max >= 2 =>
               LET h == (call.max - 1) \div 2
                   t == (call.max - 1) - h
               IN  /\ ret.val = Prefix(call.s, h) \o <<ellipsis>> \o Suffix(call.s, t)
                   /\ h + 1 + t = call.max
        /\ call.max = 1 => ret.val = <<ellipsis>>
        /\ (call.s = <<119, 105, 110, 100, 115, 117, 114, 102>> /\ call.max = 5) =>
               ret.val = <<119, 105, ellipsis, 114, 102>>


\* the call went to the branch that cuts both the name and the target
C25_Split == call.op = "truncateSymlinkParts" /\ ret.done /\ ret.val.branch = "split"

\* C25: when the pair does not fit and the name with the arrow leaves fewer
\* than 2 units for the target, the budget that remains after the 4-unit
\* arrow is split so that the target budget is at least 2, the name budget at
\* least 1, the two sum to the remaining budget and the target gets the
\* rounded-up share when the remaining budget is odd; the name is cut in the
\* middle and the target at its head.
C25_BudgetSplit ==
    C25_Split =>
        LET remaining == call.maxWidth - arrowLen
        IN  /\ ret.val.targetBudget >= 2
            /\ ret.val.nameBudget >= 1
            /\ ret.val.nameBudget + ret.val.targetBudget = remaining
            /\ remaining % 2 = 1 => ret.val.targetBudget = (remaining + 1) \div 2
            /\ ret.val.name = truncateMiddle(call.name, ret.val.nameBudget)
            /\ ret.val.target = truncateTail(call.target, ret.val.targetBudget)

\* C25 as the code has it: the target budget is the rounded-down half of the
\* remaining budget, raised to 2 and then capped at remaining - 1; the name
\* budget is the rest and at least 1; so the target budget is at least 2 once
\* the remaining budget is at least 3, and with an odd remaining budget of 5
\* or more the name gets the larger share.
C25_BudgetSplitFloor ==
    C25_Split =>
        LET remaining == call.maxWidth - arrowLen
        IN  /\ call.maxWidth > arrowLen + 1
            /\ runeCount(call.name) + arrowLen + runeCount(call.target) > call.maxWidth
            /\ call.maxWidth - arrowLen - runeCount(call.name) < 2
            /\ ret.val.targetBudget = Min(Max(remaining \div 2, 2), remaining - 1)
            /\ ret.val.nameBudget >= 1
            /\ ret.val.nameBudget + ret.val.targetBudget = remaining
            /\ remaining >= 3 => ret.val.targetBudget >= 2
            /\ (remaining % 2 = 1 /\ remaining >= 5) =>
                   ret.val.nameBudget = ret.val.targetBudget + 1
            /\ ret.val.name = truncateMiddle(call.name, ret.val.nameBudget)
            /\ ret.val.target = truncateTail(call.target, ret.val.targetBudget)

\* "verylonglinkname" and its target in 10 columns: "v…e" and "…et"
C25_Witness ==
    /\ C25_Split
    /\ call.maxWidth = 10 /\ Len(call.name) = 16
    /\ ret.val.nameBudget = 3 /\ ret.val.targetBudget = 3
    /\ ret.val.name = <<118, ellipsis, 101>>
    /\ ret.val.target = <<ellipsis, 101, 116>>

\* C27: for every name, target and maxWidth >= 1 the pair truncateSymlinkParts
\* returns fits: with a target, name, arrow and target together are at most
\* maxWidth wide; without one, the name is; and a pair that fits as it is
\* comes back unchanged.
C27_PairFits ==
    (call.op = "truncateSymlinkParts" /\ ret.done /\ call.maxWidth >= 1) =>
        /\ ret.val.target # <<>> =>
               runeCount(ret.val.name) + arrowLen + runeCount(ret.val.target) <= call.maxWidth
        /\ ret.val.target = <<>> => runeCount(ret.val.name) <= call.maxWidth
        /\ runeCount(call.name) + arrowLen + runeCount(call.target) <= call.maxWidth =>
               (ret.val.name = call.name /\ ret.val.target = call.target)


-----------------------------------------------------------------------------
(* Claims on the tree mode's include scan *)

\* name matches an include pattern and no exclude pattern
C26_Matches(name) ==
    /\ shouldInclude(config.IncludePatterns, name)
    /\ ~shouldExclude(config.ExcludePatterns, name)

\* directory d has a non-directory descendant at most k levels below it whose
\* name matches; with visibleOnly, hidden files and the contents of hidden
\* directories do not count
RECURSIVE C26_HasMatchBelow(_, _, _)
C26_HasMatchBelow(d, k, visibleOnly) ==
    /\ k >= 1
    /\ \E i \in 1..Len(ReadDir(fs, d)) :
          LET e == ReadDir(fs, d)[i] IN
          /\ visibleOnly => ~HasDotPrefix(e.Name)
          /\ IF e.IsDir THEN C26_HasMatchBelow(e.Path, k - 1, visibleOnly)
             ELSE C26_Matches(e.Name)

\* the steps of a tree listing with include patterns: the filter pass keeps a
\* directory entry exactly if it has a descendant that counts, and the loop
\* prints and enters a directory entry only if it has one
C26_Steps(visibleOnly, unlessCancelled) ==
    (pc = "tree" /\ Len(stack) > 0 /\ Len(config.IncludePatterns) > 0) =>
        LET top == stack[Len(stack)] IN
        /\ (/\ top.phase = "filter"
            /\ Len(stack') = Len(stack) /\ stack'[Len(stack)].phase = "loop"
            /\ unlessCancelled => ~ctxDone) =>
               \A i \in 1..Len(top.files) :
                   top.files[i].IsDir =>
                       ((\E j \in 1..Len(stack'[Len(stack)].files) :
                            stack'[Len(stack)].files[j] = top.files[i])
                        <=> C26_HasMatchBelow(top.files[i].Path, 5, visibleOnly))
        /\ (top.phase = "loop" /\ nOut' = nOut + 1 /\ top.files[top.i].IsDir) =>
               /\ C26_HasMatchBelow(top.files[top.i].Path, 5, visibleOnly)
               /\ Len(stack') = Len(stack) + 1
               /\ stack'[Len(stack')].path = top.files[top.i].Path

\* C26: in tree mode with include patterns a directory entry is printed and
\* descended into if and only if at least one non-directory descendant at
\* most 5 levels below it has a name that matches an include pattern and no
\* exclude pattern; a directory without such a descendant is never printed.
C26_PrintedIffMatchingDescendant == [][C26_Steps(FALSE, FALSE)]_vars

\* C26 with what the scan leaves out: when show_hidden is false, hidden files
\* and everything below a hidden directory do not count as descendants, and
\* a filter pass that runs after the cancellation keeps no directory.
C26_PrintedIffVisibleMatch == [][C26_Steps(~config.ShowHidden, TRUE)]_vars

\* the entry a was printed and entered because x.t lies exactly 5 levels
\* below it
C26_Witness ==
    /\ pc = "tree" /\ fs.kind = "scan" /\ fs.len = 5 /\ fs.hiddenAt = 0
    /\ fs.leaf = <<120, 46, 116>>
    /\ config.ExcludePatterns = <<>>
    /\ nOut = 1 /\ Len(stack) = 2
    /\ stack[2].path = 1 /\ stack[2].phase = "enter"


-----------------------------------------------------------------------------
(* Scheduling: the Go scheduler runs a goroutine that can take a step, the   *)
(* one of List and the listening one; no signal has to arrive                *)

\* the steps of List's own goroutine
ListSteps ==
    \/ ListStart
    \/ ListValidate
    \/ ListFlat
    \/ RecCheck
    \/ RecProcess
    \/ TreeEnter
    \/ TreeFilter
    \/ TreeLoop

\* List's goroutine can take a step exactly until List has returned
ListCanStep == pc # "done"

\* WF_vars(ListSteps), with ENABLED <<ListSteps>>_vars written as ListCanStep
ListFairness == []<>(~ListCanStep) \/ []<><<ListSteps>>_vars

Fairness ==
    /\ ListFairness
    /\ WF_vars(ListenerSignal)
    /\ WF_vars(ListenerCtxDone)

\* the invocations of Spec with the default sort, no patterns and hidden
\* entries left out
InitLive ==
    /\ config \in { c \in Configs(0..MaxCfgDepth, {<<FALSE, FALSE, FALSE>>}, {<<>>}, {<<>>}) :
                      ~c.ShowHidden /\ ~c.Reverse }
    /\ fs = [kind |-> "small"]
    /\ path \in {"dir", "file", "missing"}
    /\ Idle
    /\ NoCall

SpecLive == InitLive /\ [][Next]_vars /\ Fairness

\* C28: the listening goroutine List starts always terminates: once List has
\* returned (with nil, with an error, or cancelled) the listener has exited
\* or exits, through the signal case or through the cancelled context.
C28_ListenerTerminates == (pc = "done") ~> (listener = "exited")


\* the numbers of the directories of the tree Spec lists
C29_Directories == 0..5

\* the directory that holds the directory p
C29_Parent(p) ==
    CHOOSE d \in C29_Directories :
        \E i \in 1..Len(ReadDir(fs, d)) : ReadDir(fs, d)[i].IsDir /\ ReadDir(fs, d)[i].Path = p

\* the entry is not hidden (or hidden entries are shown), matches no exclude
\* pattern and, if include patterns are configured, matches one of them
C29_Survives(e) ==
    /\ config.ShowHidden \/ ~HasDotPrefix(e.Name)
    /\ ~shouldExclude(config.ExcludePatterns, e.Name)
    /\ Len(config.IncludePatterns) = 0 \/ shouldInclude(config.IncludePatterns, e.Name)

\* p is the root, or p and every directory between the root and p survived
\* the filter of its parent's batch
RECURSIVE C29_Admitted(_)
C29_Admitted(p) ==
    \/ p = 0
    \/ /\ C29_Survives(EntryOf(C29_Parent(p), p))
       /\ C29_Admitted(C29_Parent(p))

\* C29: in recursive mode a directory other than the root is enqueued, taken
\* off the queue, read or rendered only if it survived the filter of its
\* parent's batch, and so did every directory above it: a subdirectory that
\* is hidden with show_hidden false, matches an exclude pattern or matches no
\* include pattern while some are configured is never enqueued.
C29_OnlySurvivorsAreRead ==
    (config.Recursive /\ pc \in {"rec_check", "rec_process", "done"}) =>
        /\ \A i \in 1..Len(dirs) : C29_Admitted(dirs[i].path)
        /\ \A i \in 1..Len(dequeued) : C29_Admitted(dequeued[i])
        /\ ev.kind # "none" => C29_Admitted(ev.path)

\* the listing is over; it has read a and B, and it has read neither .g,
\* which is hidden, nor c, which the exclude pattern matches
C29_Witness ==
    /\ config.Recursive /\ pc = "done" /\ result = "nil"
    /\ ~config.ShowHidden /\ config.ExcludePatterns = <<PatC>>
    /\ config.IncludePatterns = <<>>
    /\ \E i \in 1..Len(dequeued) : dequeued[i] = 2
    /\ \E i \in 1..Len(dequeued) : dequeued[i] = 4
    /\ \A i \in 1..Len(dequeued) : dequeued[i] \notin {1, 3}
    /\ nRead >= 3


-----------------------------------------------------------------------------
(* Recursive listings that no signal interrupts *)

NextUninterrupted ==
    \/ ListStart
    \/ ListValidate
    \/ RecCheck
    \/ RecProcess
    \/ ListenerCtxDone

\* recursive listings of the hand-made tree, and of the tree of more than
\* 10,000 directories
InitUninterrupted ==
    /\ \/ /\ config \in { c \in Configs(0..MaxCfgDepth, {<<FALSE, FALSE, FALSE>>},
                                        {<<>>, <<PatT>>}, {<<>>, <<PatC>>}) :
                            c.Recursive /\ ~c.Reverse }
          /\ fs = [kind |-> "small"]
       \/ /\ config \in { c \in Configs({0}, {<<FALSE, FALSE, FALSE>>}, {<<>>}, {<<>>}) :
                            c.Recursive /\ ~c.ShowHidden /\ ~c.Reverse }
          /\ fs = [kind |-> "chains", k |-> ManyChains, len |-> ManyLen]
    /\ path = "dir"
    /\ Idle
    /\ NoCall

SpecUninterrupted ==
    InitUninterrupted /\ [][NextUninterrupted]_vars /\ ListFairness /\ WF_vars(ListenerCtxDone)

\* the directories put on the queue so far, in the order they were put there
\* (as far as dequeued remembers them)
C30_Enqueued == dequeued \o [i \in 1..Len(dirs) |-> dirs[i].path]

\* no directory was put on the queue twice, so none is taken off it twice,
\* and List returns only with the queue empty or the ceiling passed
C30_AtMostOnce ==
    /\ \A i, j \in 1..Len(C30_Enqueued) : i # j => C30_Enqueued[i] # C30_Enqueued[j]
    /\ pc = "done" => (Len(dirs) = 0 \/ dirCount > maxDirs)

\* C30: on a finite directory tree and without cancellation the recursive
\* traversal eventually terminates with List returning nil; each directory
\* is enqueued at most once and dequeued at most once, and the loop ends
\* when the queue is empty or the directory-count ceiling is hit.
C30_Terminates == []C30_AtMostOnce /\ <>(pc = "done" /\ result = "nil")

\* the listing of the hand-made tree has returned nil after taking the root,
\* a, c, d and B off the queue, once each
C30_Witness ==
    /\ fs.kind = "small" /\ pc = "done" /\ result = "nil"
    /\ Len(dirs) = 0 /\ Len(dequeued) = 5 /\ nRead = 5 /\ nErr = 1
    /\ \A p \in {0, 2, 3, 4, 5} : \E i \in 1..5 : dequeued[i] = p

=============================================================================
